---- MODULE Spec2Model ----
(***************************************************************************)
(* Model of NativeToolCallParser (the streaming tool-call parser).         *)
(*                                                                         *)
(* Text is a sequence of lexical symbols.  Each symbol stands for a run of *)
(* characters of the real text: the punctuation of JSON is one symbol per  *)
(* character, a word ("name", "v", "null") is one symbol.  A tool name is  *)
(* a sequence of name symbols in the same way ("mcp", "--", "__", words).  *)
(***************************************************************************)
EXTENDS Integers, Sequences, FiniteSets, TLC

(***************************************************************************)
(* JSON values                                                             *)
(***************************************************************************)
Q == "\""

NoFields == [k \in {} |-> 0]

Undef == [t |-> "undef", s |-> <<>>, f |-> NoFields]
Null == [t |-> "null", s |-> <<>>, f |-> NoFields]
Str(s) == [t |-> "str", s |-> s, f |-> NoFields]
Bool(b) == [t |-> "bool", s |-> <<b>>, f |-> NoFields]
Obj(f) == [t |-> "obj", s |-> <<>>, f |-> f]
EmptyObj == Obj(NoFields)

\* obj[key] = value of a JavaScript object: a later key replaces an earlier one
SetField(f, key, v) == [k \in DOMAIN f \cup {key} |-> IF k = key THEN v ELSE f[k]]

\* args.key : undefined unless args is an object with that own property
Get(args, key) == IF args.t = "obj" /\ <<key>> \in DOMAIN args.f THEN args.f[<<key>>] ELSE Undef

Defined(v) == v.t # "undef"

\* JavaScript truthiness of a value
Truthy(v) == v.t = "obj" \/ (v.t = "str" /\ v.s # <<>>) \/ v = Bool("true")

\* Array.isArray(v): the texts of this model hold no array
IsArray(v) == v.t = "arr"

\* index of the first quote at or after i, 0 when there is none
RECURSIVE NextQ(_, _)
NextQ(t, i) == IF i > Len(t) THEN 0 ELSE IF t[i] = Q THEN i ELSE NextQ(t, i + 1)

(***************************************************************************)
(* JSON.parse: the strict parser.  Results are [ok, v, i]: i is the index  *)
(* after the parsed value.                                                 *)
(***************************************************************************)
SFail == [ok |-> FALSE, v |-> Undef, i |-> 0]

RECURSIVE SParseValue(_, _)
RECURSIVE SParseMembers(_, _, _)

SParseValue(t, i) ==
    IF i > Len(t) THEN SFail
    ELSE IF t[i] = Q THEN
        LET j == NextQ(t, i + 1)
        IN  IF j = 0 THEN SFail ELSE [ok |-> TRUE, v |-> Str(SubSeq(t, i + 1, j - 1)), i |-> j + 1]
    ELSE IF t[i] = "{" THEN
        IF i + 1 <= Len(t) /\ t[i + 1] = "}"
        THEN [ok |-> TRUE, v |-> EmptyObj, i |-> i + 2]
        ELSE SParseMembers(t, i + 1, NoFields)
    ELSE IF t[i] = "null" THEN [ok |-> TRUE, v |-> Null, i |-> i + 1]
    ELSE IF t[i] \in {"true", "false"} THEN [ok |-> TRUE, v |-> Bool(t[i]), i |-> i + 1]
    ELSE SFail

\* a member "key":value followed by "," and another member, or by "}"
SParseMembers(t, i, f) ==
    IF i > Len(t) \/ t[i] # Q THEN SFail
    ELSE LET j == NextQ(t, i + 1)
         IN  IF j = 0 \/ j + 1 > Len(t) \/ t[j + 1] # ":" THEN SFail
             ELSE LET val == SParseValue(t, j + 2)
                      g == SetField(f, SubSeq(t, i + 1, j - 1), val.v)
                  IN  IF ~val.ok \/ val.i > Len(t) THEN SFail
                      ELSE IF t[val.i] = "," THEN SParseMembers(t, val.i + 1, g)
                      ELSE IF t[val.i] = "}" THEN [ok |-> TRUE, v |-> Obj(g), i |-> val.i + 1]
                      ELSE SFail

\* JSON.parse(text): the whole text must be one value
JSONParse(t) ==
    LET r == SParseValue(t, 1)
    IN  IF r.ok /\ r.i = Len(t) + 1 THEN [ok |-> TRUE, v |-> r.v] ELSE [ok |-> FALSE, v |-> Undef]

(***************************************************************************)
(* parseJSON of partial-json: the lenient parser.  Results are             *)
(* [err, v, i]: err is TRUE when the parser throws, i is the index the     *)
(* parser stands at.                                                       *)
(***************************************************************************)
\* parseNum on a text without digits: scans up to "," or "}" and throws
RECURSIVE ScanNum(_, _)
ScanNum(t, i) == IF i > Len(t) \/ t[i] \in {",", "}"} THEN i ELSE ScanNum(t, i + 1)

\* parseStr: from the symbol at i to the next quote, or to the end of text
LParseStr(t, i) ==
    LET j == NextQ(t, i + 1)
        e == IF j = 0 THEN Len(t) ELSE j - 1
        n == IF j = 0 THEN Len(t) + 1 ELSE j + 1
    IN  IF t[i] = Q THEN [err |-> FALSE, v |-> Str(SubSeq(t, i + 1, e)), i |-> n]
        ELSE [err |-> TRUE, v |-> Undef, i |-> n]

RECURSIVE LParseAny(_, _)
RECURSIVE LParseObj(_, _, _)

LParseAny(t, i) ==
    IF i > Len(t) THEN [err |-> TRUE, v |-> Undef, i |-> i]
    ELSE IF t[i] = Q THEN LParseStr(t, i)
    ELSE IF t[i] = "{" THEN LParseObj(t, i + 1, NoFields)
    ELSE IF t[i] = "null" THEN [err |-> FALSE, v |-> Null, i |-> i + 1]
    ELSE IF t[i] \in {"true", "false"} THEN [err |-> FALSE, v |-> Bool(t[i]), i |-> i + 1]
    ELSE [err |-> TRUE, v |-> Undef, i |-> IF i = 1 THEN i ELSE ScanNum(t, i)]

\* parseObj: every error inside the object ends it with what was decoded
LParseObj(t, i, f) ==
    IF i > Len(t) THEN [err |-> FALSE, v |-> Obj(f), i |-> i]
    ELSE IF t[i] = "}" THEN [err |-> FALSE, v |-> Obj(f), i |-> i + 1]
    ELSE LET key == LParseStr(t, i)
         IN  IF key.err THEN [err |-> FALSE, v |-> Obj(f), i |-> key.i]
             ELSE LET val == LParseAny(t, key.i + 1)
                      g == SetField(f, key.v.s, val.v)
                      n == IF val.i <= Len(t) /\ t[val.i] = "," THEN val.i + 1 ELSE val.i
                  IN  IF val.err THEN [err |-> FALSE, v |-> Obj(f), i |-> val.i]
                      ELSE LParseObj(t, n, g)

\* parseJSON(text): throws on an empty text, ignores what follows the value
parseJSON(t) ==
    IF t = <<>> THEN [err |-> TRUE, v |-> Undef]
    ELSE LET r == LParseAny(t, 1) IN [err |-> r.err, v |-> r.v]

(***************************************************************************)
(* Tool names                                                              *)
(***************************************************************************)
toolNames ==
    {"execute_command", "read_file", "read_command_output", "write_to_file", "apply_diff",
     "search_and_replace", "search_replace", "edit_file", "apply_patch", "search_files",
     "list_files", "browser_action", "use_mcp_tool", "access_mcp_resource",
     "ask_followup_question", "attempt_completion", "switch_mode", "new_task",
     "fetch_instructions", "codebase_search", "update_todo_list", "run_slash_command",
     "generate_image", "custom_tool",
     "browser_open", "browser_close", "browser_action_input", "browser_navigate",
     "browser_reload", "browser_screenshot", "browser_execute_script",
     "browser_inspect_element", "browser_get_errors", "browser_get_console_logs",
     "browser_get_performance", "browser_get_state", "browser_set_viewport",
     "browser_get_network_requests",
     "project_get_active", "project_start", "project_stop",
     "canvas_list", "canvas_get_active", "canvas_create", "canvas_open",
     "component_add", "component_add_batch", "component_remove", "component_get_info",
     "component_list", "component_rebuild", "canvas_validate_components"}

\* toolNames.includes(name)
IsToolName(name) == Len(name) = 1 /\ name[1] \in toolNames

TOOL_ALIASES == [write_file |-> "write_to_file"]

\* resolveToolAlias(name): the canonical name of an alias, any other name unchanged
resolveToolAlias(name) ==
    IF Len(name) = 1 /\ name[1] \in DOMAIN TOOL_ALIASES THEN <<TOOL_ALIASES[name[1]]>> ELSE name

\* the names the injected custom-tool registry knows
CustomTools == {<<"my_tool">>}

\* customToolRegistry.has(name)
customToolRegistryHas(name) == name \in CustomTools

MCP_TOOL_PREFIX == "mcp"
MCP_TOOL_SEPARATOR == "--"
mcpPrefix == <<MCP_TOOL_PREFIX, MCP_TOOL_SEPARATOR>>

\* name.startsWith(prefix)
StartsWith(name, prefix) == Len(name) >= Len(prefix) /\ SubSeq(name, 1, Len(prefix)) = prefix

\* normalizeMcpToolName: the underscore separators of mcp__a__b become hyphens
normalizeMcpToolName(name) ==
    IF StartsWith(name, <<MCP_TOOL_PREFIX, "__">>)
    THEN [i \in DOMAIN name |-> IF name[i] = "__" THEN MCP_TOOL_SEPARATOR ELSE name[i]]
    ELSE name

\* parseMcpToolName: exactly two components after the prefix, else no result
parseMcpToolName(name) ==
    LET rest == SubSeq(name, 3, Len(name))
        seps == {i \in DOMAIN rest : rest[i] = MCP_TOOL_SEPARATOR}
    IN  IF StartsWith(name, mcpPrefix) /\ Cardinality(seps) = 1
        THEN LET k == CHOOSE i \in seps : TRUE
             IN  [ok |-> TRUE, serverName |-> SubSeq(rest, 1, k - 1),
                  toolName |-> SubSeq(rest, k + 1, Len(rest))]
        ELSE [ok |-> FALSE, serverName |-> <<>>, toolName |-> <<>>]

(***************************************************************************)
(* Argument projection                                                     *)
(***************************************************************************)
\* coerceOptionalBoolean: a boolean, or the literals "true" / "false" in any case
coerceOptionalBoolean(v) ==
    IF v.t = "bool" THEN v
    ELSE IF v.t = "str" /\ v.s \in {<<"true">>, <<"True">>, <<"TRUE">>} THEN Bool("true")
    ELSE IF v.t = "str" /\ v.s \in {<<"false">>, <<"False">>, <<"FALSE">>} THEN Bool("false")
    ELSE Undef

\* the typed fields each case of the two switches copies from the arguments
ArgFields ==
    [read_file |-> {"files"},
     attempt_completion |-> {"result"},
     execute_command |-> {"command", "cwd"},
     write_to_file |-> {"path", "content"},
     ask_followup_question |-> {"question", "follow_up"},
     apply_diff |-> {"path", "diff"},
     browser_action |-> {"action", "url", "coordinate", "size", "text", "path"},
     codebase_search |-> {"query", "path"},
     fetch_instructions |-> {"task"},
     generate_image |-> {"prompt", "path", "image"},
     run_slash_command |-> {"command", "args"},
     search_files |-> {"path", "regex", "file_pattern"},
     switch_mode |-> {"mode_slug", "reason"},
     update_todo_list |-> {"todos"},
     read_command_output |-> {"artifact_id", "search", "offset", "limit"},
     use_mcp_tool |-> {"server_name", "tool_name", "arguments"},
     access_mcp_resource |-> {"server_name", "uri"},
     apply_patch |-> {"patch"},
     search_replace |-> {"file_path", "old_string", "new_string"},
     search_and_replace |-> {"path", "operations"},
     edit_file |-> {"file_path", "old_string", "new_string", "expected_replacements"},
     list_files |-> {"path", "recursive"},
     new_task |-> {"mode", "message", "todos"},
     browser_open |-> {"url"},
     browser_close |-> {},
     browser_action_input |-> {"action", "coordinate", "text", "key", "modifiers", "deltaX", "deltaY"},
     browser_navigate |-> {"url"},
     browser_reload |-> {"ignoreCache"},
     browser_screenshot |-> {},
     browser_execute_script |-> {"script"},
     browser_inspect_element |-> {"selector", "includeInherited"},
     browser_get_errors |-> {"limit"},
     browser_get_console_logs |-> {"limit", "type"},
     browser_get_performance |-> {},
     browser_get_state |-> {},
     browser_set_viewport |-> {"width", "height", "deviceScaleFactor", "mobile"},
     browser_get_network_requests |-> {"includeStaticAssets", "urlFilter", "method", "statusFilter", "limit"},
     project_get_active |-> {},
     project_start |-> {"projectPath", "port"},
     project_stop |-> {},
     canvas_list |-> {"nameFilter", "sortBy", "sortDirection"},
     canvas_get_active |-> {},
     canvas_create |-> {"name"},
     canvas_open |-> {"canvasId", "name"},
     canvas_validate_components |-> {"canvasId"},
     component_add |-> {"folderPath", "canvasId", "name", "entryFile", "framework"},
     component_add_batch |-> {"components"},
     component_remove |-> {"componentId", "deleteSourceCode"},
     component_get_info |-> {"componentId"},
     component_list |-> {"canvasId"},
     component_rebuild |-> {"componentId"}]

\* parseToolCall: the keys a case of the strict switch tests with "!== undefined"
\* (all of them must be there); the cases with another test are in StrictGuard
StrictDefined ==
    [apply_diff |-> {"path", "diff"},
     ask_followup_question |-> {"question", "follow_up"},
     browser_action |-> {"action"},
     codebase_search |-> {"query"},
     fetch_instructions |-> {"task"},
     generate_image |-> {"prompt", "path"},
     run_slash_command |-> {"command"},
     search_files |-> {"path", "regex"},
     switch_mode |-> {"mode_slug", "reason"},
     update_todo_list |-> {"todos"},
     read_command_output |-> {"artifact_id"},
     write_to_file |-> {"path", "content"},
     use_mcp_tool |-> {"server_name", "tool_name"},
     access_mcp_resource |-> {"server_name", "uri"},
     apply_patch |-> {"patch"},
     search_replace |-> {"file_path", "old_string", "new_string"},
     edit_file |-> {"file_path", "old_string", "new_string"},
     list_files |-> {"path"},
     new_task |-> {"mode", "message"},
     browser_open |-> {},
     browser_close |-> {},
     browser_action_input |-> {"action"},
     browser_navigate |-> {"url"},
     browser_reload |-> {},
     browser_screenshot |-> {},
     browser_execute_script |-> {"script"},
     browser_inspect_element |-> {"selector"},
     browser_get_errors |-> {},
     browser_get_console_logs |-> {},
     browser_get_performance |-> {},
     browser_get_state |-> {},
     browser_set_viewport |-> {},
     browser_get_network_requests |-> {},
     project_get_active |-> {},
     project_start |-> {"projectPath"},
     project_stop |-> {},
     canvas_list |-> {},
     canvas_get_active |-> {},
     canvas_create |-> {"name"},
     canvas_open |-> {},
     canvas_validate_components |-> {},
     component_add |-> {"folderPath"},
     component_add_batch |-> {"components"},
     component_remove |-> {"componentId"},
     component_get_info |-> {"componentId"},
     component_list |-> {"canvasId"},
     component_rebuild |-> {"componentId"}]

\* a slip of the strict switch: the cases build nativeArgs without a test
StrictGuardNone(tool, args) == tool \in DOMAIN ArgFields

\* a slip of the strict switch: every case tests its fields for truthiness
StrictGuardTruthy(tool, args) ==
    CASE tool = "read_file" -> Truthy(Get(args, "files")) /\ IsArray(Get(args, "files"))
      [] tool = "attempt_completion" -> Truthy(Get(args, "result"))
      [] tool = "execute_command" -> Truthy(Get(args, "command"))
      [] tool = "search_and_replace" ->
            /\ Truthy(Get(args, "path"))
            /\ Truthy(Get(args, "operations"))
            /\ IsArray(Get(args, "operations"))
      [] tool \in DOMAIN StrictDefined -> \A k \in StrictDefined[tool] : Truthy(Get(args, k))
      [] OTHER -> FALSE

\* parseToolCall: the condition under which the case of the tool builds nativeArgs
StrictGuard(tool, args) ==
    CASE tool = "read_file" -> Truthy(Get(args, "files")) /\ IsArray(Get(args, "files"))
      [] tool = "attempt_completion" -> Truthy(Get(args, "result"))
      [] tool = "execute_command" -> Truthy(Get(args, "command"))
      [] tool = "search_and_replace" ->
            /\ Defined(Get(args, "path"))
            /\ Defined(Get(args, "operations"))
            /\ IsArray(Get(args, "operations"))
      [] tool \in DOMAIN StrictDefined -> \A k \in StrictDefined[tool] : Defined(Get(args, k))
      [] OTHER -> FALSE

\* createPartialToolUse: the keys a case of the partial switch tests with
\* "!== undefined" (one of them is enough); the Roopik cases test nothing
PartialDefined ==
    [ask_followup_question |-> {"question", "follow_up"},
     apply_diff |-> {"path", "diff"},
     browser_action |-> {"action"},
     codebase_search |-> {"query"},
     fetch_instructions |-> {"task"},
     generate_image |-> {"prompt", "path"},
     run_slash_command |-> {"command"},
     search_files |-> {"path", "regex"},
     switch_mode |-> {"mode_slug", "reason"},
     update_todo_list |-> {"todos"},
     use_mcp_tool |-> {"server_name", "tool_name"},
     apply_patch |-> {"patch"},
     search_replace |-> {"file_path", "old_string", "new_string"},
     search_and_replace |-> {"path", "operations"},
     edit_file |-> {"file_path", "old_string", "new_string"},
     list_files |-> {"path"},
     new_task |-> {"mode", "message"}]

\* the Roopik cases of the partial switch, which build nativeArgs unconditionally
PartialAlways ==
    {"browser_open", "browser_close", "browser_action_input", "browser_navigate",
     "browser_reload", "browser_screenshot", "browser_execute_script",
     "browser_inspect_element", "browser_get_errors", "browser_get_console_logs",
     "browser_get_performance", "browser_get_state", "browser_set_viewport",
     "browser_get_network_requests", "project_get_active", "project_start", "project_stop",
     "canvas_list", "canvas_get_active", "canvas_create", "canvas_open",
     "canvas_validate_components", "component_add", "component_add_batch",
     "component_remove", "component_get_info", "component_list", "component_rebuild"}

\* a slip of the partial switch: the Roopik tools have no case
PartialGuardNoRoopik(tool, args) ==
    CASE tool = "read_file" -> Truthy(Get(args, "files")) /\ IsArray(Get(args, "files"))
      [] tool = "attempt_completion" -> Truthy(Get(args, "result"))
      [] tool = "execute_command" -> Truthy(Get(args, "command"))
      [] tool = "write_to_file" -> Truthy(Get(args, "path")) \/ Truthy(Get(args, "content"))
      [] tool \in DOMAIN PartialDefined -> \E k \in PartialDefined[tool] : Defined(Get(args, k))
      [] OTHER -> FALSE

\* createPartialToolUse: the condition under which the case of the tool builds nativeArgs
PartialGuard(tool, args) ==
    CASE tool = "read_file" -> Truthy(Get(args, "files")) /\ IsArray(Get(args, "files"))
      [] tool = "attempt_completion" -> Truthy(Get(args, "result"))
      [] tool = "execute_command" -> Truthy(Get(args, "command"))
      [] tool = "write_to_file" -> Truthy(Get(args, "path")) \/ Truthy(Get(args, "content"))
      [] tool \in DOMAIN PartialDefined -> \E k \in PartialDefined[tool] : Defined(Get(args, k))
      [] tool \in PartialAlways -> TRUE
      [] OTHER -> FALSE

\* a slip of the strict switch: every field is coerced as a boolean is
FieldValueCoerced(tool, k, args, partial) ==
    IF partial THEN Get(args, k) ELSE coerceOptionalBoolean(Get(args, k))

\* the typed value of one field
FieldValue(tool, k, args, partial) ==
    IF tool = "list_files" /\ k = "recursive" THEN coerceOptionalBoolean(Get(args, k))
    ELSE IF partial /\ tool = "ask_followup_question" /\ k = "follow_up" /\ ~IsArray(Get(args, k))
    THEN Undef
    ELSE Get(args, k)

\* the names a key of the arguments may have to be copied into params
toolParamNames ==
    {"command", "path", "content", "regex", "file_pattern", "recursive", "action", "url",
     "coordinate", "text", "server_name", "tool_name", "arguments", "uri", "question",
     "result", "diff", "mode_slug", "reason", "line", "mode", "message", "cwd",
     "follow_up", "task", "size", "query", "args", "start_line", "end_line", "todos",
     "prompt", "image", "files", "operations", "patch", "file_path", "old_string",
     "new_string", "expected_replacements", "artifact_id", "search", "offset", "limit",
     "selector", "includeInherited", "script", "ignoreCache", "type", "projectPath",
     "port", "name", "nameFilter", "sortBy", "sortDirection", "canvasId", "folderPath",
     "entryFile", "framework", "componentId", "deleteSourceCode", "components", "width",
     "height", "deviceScaleFactor", "mobile", "includeStaticAssets", "urlFilter", "method",
     "statusFilter", "key", "modifiers", "deltaX", "deltaY"}

\* typeof value === "string" ? value : JSON.stringify(value): a string is
\* kept; of another value the text is kept, marked as a string
Stringify(v) == IF v.t = "str" THEN v ELSE [t |-> "str", s |-> <<"JSON", v.t>> \o v.s, f |-> v.f]

\* Object.entries(args): the members of an object, the symbols of a string
\* under their positions, nothing for a boolean
Entries(args) ==
    IF args.t = "obj" THEN args.f
    ELSE IF args.t = "str" THEN [k \in {<<ToString(i - 1)>> : i \in 1..Len(args.s)} |->
                                    Str(<<args.s[CHOOSE i \in 1..Len(args.s) : <<ToString(i - 1)>> = k]>>)]
    ELSE NoFields

\* is the key one of toolParamNames
IsParamName(key) == Len(key) = 1 /\ key[1] \in toolParamNames

\* a slip of the loop: an unknown key is dropped for a registry tool too
StrictParamsVocabularyOnly(resolvedName, args) ==
    LET entries == Entries(args)
        kept == {k \in DOMAIN entries :
                    /\ ~(resolvedName = <<"read_file">> /\ k = <<"files">>)
                    /\ IsParamName(k)}
    IN  [k \in kept |-> Stringify(entries[k])]

\* params of parseToolCall: read_file.files is skipped, an unknown key is
\* dropped unless the tool is one of the registry
StrictParams(resolvedName, args) ==
    LET entries == Entries(args)
        kept == {k \in DOMAIN entries :
                    /\ ~(resolvedName = <<"read_file">> /\ k = <<"files">>)
                    /\ IsParamName(k) \/ customToolRegistryHas(resolvedName)}
    IN  [k \in kept |-> Stringify(entries[k])]

\* params of createPartialToolUse: the keys of toolParamNames
PartialParams(partialArgs) ==
    LET entries == Entries(partialArgs)
    IN  [k \in {j \in DOMAIN entries : IsParamName(j)} |-> Stringify(entries[k])]

\* nativeArgs: undefined, or a record of typed fields, or the whole parsed
\* value (nativeArgs = args, custom tools)
NoArgs == [kind |-> "none", whole |-> Undef, fields |-> NoFields]
TypedArgs(f) == [kind |-> "typed", whole |-> Undef, fields |-> f]
WholeArgs(args) == [kind |-> "whole", whole |-> args, fields |-> NoFields]

\* the truthiness of nativeArgs
ArgsTruthy(na) == na.kind = "typed" \/ (na.kind = "whole" /\ Truthy(na.whole))

\* the tool names with a case in the switch of parseToolCall
StrictCases ==
    DOMAIN StrictDefined \cup {"read_file", "attempt_completion", "execute_command", "search_and_replace"}

\* the switch of parseToolCall
StrictProject(name, args) ==
    IF Len(name) = 1 /\ name[1] \in DOMAIN ArgFields /\ StrictGuard(name[1], args)
    THEN TypedArgs([k \in ArgFields[name[1]] |-> FieldValue(name[1], k, args, FALSE)])
    ELSE IF (Len(name) # 1 \/ name[1] \notin StrictCases) /\ customToolRegistryHas(name)
    THEN WholeArgs(args)
    ELSE NoArgs

\* the switch of createPartialToolUse
PartialProject(name, args) ==
    IF Len(name) = 1 /\ name[1] \in DOMAIN ArgFields /\ PartialGuard(name[1], args)
    THEN TypedArgs([k \in ArgFields[name[1]] |-> FieldValue(name[1], k, args, TRUE)])
    ELSE NoArgs

\* NativeToolArgs: the fields the type of each tool declares without "?".
\* browser_action and generate_image are declared by types of another package
\* and are not listed.
RequiredArgs ==
    [access_mcp_resource |-> {"server_name", "uri"},
     read_file |-> {"files"},
     read_command_output |-> {"artifact_id"},
     attempt_completion |-> {"result"},
     execute_command |-> {"command"},
     apply_diff |-> {"path", "diff"},
     search_and_replace |-> {"path", "operations"},
     search_replace |-> {"file_path", "old_string", "new_string"},
     edit_file |-> {"file_path", "old_string", "new_string"},
     apply_patch |-> {"patch"},
     list_files |-> {"path"},
     new_task |-> {"mode", "message"},
     ask_followup_question |-> {"question", "follow_up"},
     codebase_search |-> {"query"},
     fetch_instructions |-> {"task"},
     run_slash_command |-> {"command"},
     search_files |-> {"path", "regex"},
     switch_mode |-> {"mode_slug", "reason"},
     update_todo_list |-> {"todos"},
     use_mcp_tool |-> {"server_name", "tool_name"},
     write_to_file |-> {"path", "content"},
     browser_open |-> {},
     browser_close |-> {},
     browser_action_input |-> {"action"},
     browser_navigate |-> {"url"},
     browser_reload |-> {},
     browser_screenshot |-> {},
     browser_execute_script |-> {"script"},
     browser_inspect_element |-> {"selector"},
     browser_get_errors |-> {},
     browser_get_console_logs |-> {},
     browser_get_performance |-> {},
     browser_get_state |-> {},
     browser_set_viewport |-> {},
     browser_get_network_requests |-> {},
     project_get_active |-> {},
     project_start |-> {"projectPath"},
     project_stop |-> {},
     canvas_list |-> {},
     canvas_get_active |-> {},
     canvas_create |-> {"name"},
     canvas_open |-> {},
     canvas_validate_components |-> {},
     component_add |-> {"folderPath"},
     component_add_batch |-> {"components"},
     component_remove |-> {"componentId"},
     component_get_info |-> {"componentId"},
     component_list |-> {},
     component_rebuild |-> {"componentId"}]

(***************************************************************************)
(* Results                                                                 *)
(***************************************************************************)
\* What a method call produces.  kind is "null", "tool_use", "mcp_tool_use",
\* "void" (no return value) or "throw" (an exception leaves the method); log
\* is the message the call wrote to the console, "" when it wrote none.  A
\* field the returned record does not have is <<>> (names), "" (id), NoArgs,
\* NoFields (params) or Undef.
Val(kind) ==
    [kind |-> kind, log |-> "", id |-> "", name |-> <<>>, originalName |-> <<>>,
     partial |-> FALSE, nativeArgs |-> NoArgs, serverName |-> <<>>, toolName |-> <<>>,
     arguments |-> Undef, params |-> NoFields]

NullVal == Val("null")
Thrown == Val("throw")
Void == Val("void")

\* return null after console.warn / console.error of the message
NullLogged(msg) == [NullVal EXCEPT !.log = msg]

\* a slip of the record: the partial flag is always false
ToolUseNeverPartial(name, originalName, partial, nativeArgs) ==
    [Val("tool_use") EXCEPT !.name = name, !.originalName = originalName,
                            !.partial = FALSE, !.nativeArgs = nativeArgs]

ToolUse(name, originalName, partial, nativeArgs) ==
    [Val("tool_use") EXCEPT !.name = name, !.originalName = originalName,
                            !.partial = partial, !.nativeArgs = nativeArgs]

\* a slip of the record: the two components of the name change places
McpToolUseSwapped(id, name, serverName, toolName, args) ==
    [Val("mcp_tool_use") EXCEPT !.id = id, !.name = name, !.serverName = toolName,
                                !.toolName = serverName, !.arguments = args]

McpToolUse(id, name, serverName, toolName, args) ==
    [Val("mcp_tool_use") EXCEPT !.id = id, !.name = name, !.serverName = serverName,
                                !.toolName = toolName, !.arguments = args]

(***************************************************************************)
(* The parser                                                              *)
(***************************************************************************)
\* a slip of the partial record: originalName is not set
createPartialToolUseNoOriginal(id, name, partialArgs, partial, originalName) ==
    [ToolUse(name, <<>>, partial, PartialProject(name, partialArgs))
        EXCEPT !.params = PartialParams(partialArgs)]

createPartialToolUse(id, name, partialArgs, partial, originalName) ==
    [ToolUse(name, originalName, partial, PartialProject(name, partialArgs))
        EXCEPT !.params = PartialParams(partialArgs)]

\* a slip of the accumulation: the chunk is put in front
AccumulatePrepend(acc, chunk) == chunk \o acc

\* toolCall.argumentsAccumulator += chunk
Accumulate(acc, chunk) == acc \o chunk

\* processStreamingChunk: is the call one of a dynamic MCP tool
IsDynamicStreaming(name) == StartsWith(name, mcpPrefix)

\* a slip of the partial path: the resolved name is validated as in parseToolCall
StreamingChunkResultValidates(toolCall) ==
    IF IsDynamicStreaming(toolCall.name) THEN NullVal
    ELSE LET partialArgs == parseJSON(toolCall.argumentsAccumulator)
             resolvedName == resolveToolAlias(toolCall.name)
             originalName == IF toolCall.name # resolvedName THEN toolCall.name ELSE <<>>
         IN  IF partialArgs.err \/ ~(IsToolName(resolvedName) \/ customToolRegistryHas(resolvedName))
             THEN NullVal
             ELSE createPartialToolUse(toolCall.id, resolvedName,
                                       IF Truthy(partialArgs.v) THEN partialArgs.v ELSE EmptyObj,
                                       TRUE, originalName)

\* a slip of the try block: the exception of parseJSON is not caught
StreamingChunkResultNoCatch(toolCall) ==
    IF IsDynamicStreaming(toolCall.name) THEN NullVal
    ELSE LET partialArgs == parseJSON(toolCall.argumentsAccumulator)
             resolvedName == resolveToolAlias(toolCall.name)
             originalName == IF toolCall.name # resolvedName THEN toolCall.name ELSE <<>>
         IN  IF partialArgs.err THEN Thrown
             ELSE createPartialToolUse(toolCall.id, resolvedName,
                                       IF Truthy(partialArgs.v) THEN partialArgs.v ELSE EmptyObj,
                                       TRUE, originalName)

\* processStreamingChunk after the accumulation, for the tracked call
StreamingChunkResult(toolCall) ==
    IF IsDynamicStreaming(toolCall.name) THEN NullVal
    ELSE LET partialArgs == parseJSON(toolCall.argumentsAccumulator)
             resolvedName == resolveToolAlias(toolCall.name)
             originalName == IF toolCall.name # resolvedName THEN toolCall.name ELSE <<>>
         IN  IF partialArgs.err THEN NullVal
             ELSE createPartialToolUse(toolCall.id, resolvedName,
                                       IF Truthy(partialArgs.v) THEN partialArgs.v ELSE EmptyObj,
                                       TRUE, originalName)

\* a slip of the name check: a name that does not split gets empty components
parseDynamicMcpToolDefaulted(toolCall) ==
    LET args == JSONParse(IF toolCall.arguments = <<>> THEN <<"{", "}">> ELSE toolCall.arguments)
        parsed == parseMcpToolName(normalizeMcpToolName(toolCall.name))
    IN  IF ~args.ok THEN NullLogged("Failed to parse dynamic MCP tool")
        ELSE McpToolUse(toolCall.id, toolCall.name, parsed.serverName, parsed.toolName, args.v)

\* parseDynamicMcpTool: every failure is caught and returned as null
parseDynamicMcpTool(toolCall) ==
    LET args == JSONParse(IF toolCall.arguments = <<>> THEN <<"{", "}">> ELSE toolCall.arguments)
        parsed == parseMcpToolName(normalizeMcpToolName(toolCall.name))
    IN  IF ~args.ok THEN NullLogged("Failed to parse dynamic MCP tool")
        ELSE IF ~parsed.ok THEN NullLogged("Invalid dynamic MCP tool name format")
        ELSE McpToolUse(toolCall.id, toolCall.name, parsed.serverName, parsed.toolName, args.v)

\* a slip of the final parse: the lenient parser is used
ParseArgumentsLenient(text) ==
    IF text = <<>> THEN [ok |-> TRUE, v |-> EmptyObj]
    ELSE [ok |-> ~parseJSON(text).err, v |-> parseJSON(text).v]

\* toolCall.arguments === "" ? {} : JSON.parse(toolCall.arguments)
ParseArguments(text) ==
    IF text = <<>> THEN [ok |-> TRUE, v |-> EmptyObj] ELSE JSONParse(text)

\* parseToolCall: the try block; Thrown when an exception is raised in it
ParseToolCallTry(toolCall, resolvedName) ==
    LET args == ParseArguments(toolCall.arguments)
        nativeArgs == StrictProject(resolvedName, args.v)
    IN  IF ~args.ok THEN Thrown                       \* JSON.parse throws
        ELSE IF args.v.t = "null" THEN Thrown         \* Object.entries(null) throws
        ELSE IF ~ArgsTruthy(nativeArgs) /\ ~customToolRegistryHas(resolvedName) THEN Thrown
        ELSE [ToolUse(resolvedName,
                      IF toolCall.name # resolvedName THEN toolCall.name ELSE <<>>,
                      FALSE, nativeArgs)
                 EXCEPT !.params = StrictParams(resolvedName, args.v)]

\* a slip of the catch block: the exception is thrown on
CatchRethrow(outcome) == outcome

\* parseToolCall: the catch block
Catch(outcome) ==
    IF outcome.kind = "throw" THEN NullLogged("Failed to parse tool call arguments") ELSE outcome

\* parseToolCall: the name handed to parseDynamicMcpTool
DynamicCallName(toolCall, normalizedName) == normalizedName

\* a slip of the name validation: every name passes
ValidToolNameAny(resolvedName) == TRUE

\* parseToolCall: the validation of the resolved name
ValidToolName(resolvedName) == IsToolName(resolvedName) \/ customToolRegistryHas(resolvedName)

parseToolCall(toolCall) ==
    LET normalizedName == normalizeMcpToolName(toolCall.name)
        resolvedName == resolveToolAlias(toolCall.name)
    IN  IF StartsWith(normalizedName, mcpPrefix)
        THEN parseDynamicMcpTool([toolCall EXCEPT !.name = DynamicCallName(toolCall, normalizedName)])
        ELSE IF ~ValidToolName(resolvedName) THEN NullLogged("Invalid tool name")
        ELSE Catch(ParseToolCallTry(toolCall, resolvedName))

(***************************************************************************)
(* State                                                                   *)
(***************************************************************************)
VARIABLES
    streamingToolCalls,   \* call id -> [id, name, argumentsAccumulator], the tracked calls
    ret,                  \* the last call of a method: its arguments and what it produced
    sent,                 \* call id -> the fragments passed for it since it was begun
    preview,              \* call id -> what the last processStreamingChunk of the call returned
    past,                 \* call id -> "never", "open", "finalized" or "cleared"
    rawChunkTracker,      \* the tracked stream indices, in the order they were first tracked
    history,              \* the calls of the raw chunk methods since the last clearRawChunkState
    pending               \* the emitted events the consumer has not yet passed on

\* the variables of the streaming calls and those of the raw chunks
callVars == <<streamingToolCalls, ret, sent, preview, past>>
rawVars == <<rawChunkTracker, history, pending>>

vars == <<streamingToolCalls, ret, sent, preview, past, rawChunkTracker, history, pending>>

Ids == {"a", "b"}

NoCalls == [i \in {} |-> 0]

\* a slip of the keying: the entry is stored under every key
MapSetAll(m, id, entry) == [i \in DOMAIN m \cup {id} |-> entry]

\* Map.set(id, entry)
MapSet(m, id, entry) == [i \in DOMAIN m \cup {id} |-> IF i = id THEN entry ELSE m[i]]

\* a slip of the clean-up: nothing is deleted
MapDeleteNothing(m, id) == m

\* Map.delete(id)
MapDelete(m, id) == [i \in DOMAIN m \ {id} |-> m[i]]

\* What ret records of a call.  tracked, name and text are those of the entry
\* the method found (for processStreamingChunk, after the accumulation), prev
\* is what the last processStreamingChunk of that entry had returned.
Ret(op, id, tracked, name, text, prev, val) ==
    [op |-> op, id |-> id, tracked |-> tracked, name |-> name, text |-> text,
     prev |-> prev, val |-> val]

Init ==
    /\ streamingToolCalls = NoCalls
    /\ ret = Ret("init", "", FALSE, <<>>, <<>>, Void, Void)
    /\ sent = [i \in Ids |-> <<>>]
    /\ preview = [i \in Ids |-> Void]
    /\ past = [i \in Ids |-> "never"]
    /\ rawChunkTracker = <<>>
    /\ history = <<>>
    /\ pending = <<>>

\* a slip of the begin: the text of a tracked call is kept
startKeepsText(id, name) ==
    /\ streamingToolCalls' =
          MapSet(streamingToolCalls, id,
                 [id |-> id, name |-> name,
                  argumentsAccumulator |->
                      IF id \in DOMAIN streamingToolCalls
                      THEN streamingToolCalls[id].argumentsAccumulator ELSE <<>>])
    /\ ret' = Ret("begin", id, id \in DOMAIN streamingToolCalls, name, <<>>, Void, Void)
    /\ sent' = [sent EXCEPT ![id] = <<>>]
    /\ preview' = [preview EXCEPT ![id] = Void]
    /\ past' = [past EXCEPT ![id] = "open"]

startStreamingToolCall(id, name) ==
    /\ streamingToolCalls' =
          MapSet(streamingToolCalls, id, [id |-> id, name |-> name, argumentsAccumulator |-> <<>>])
    /\ ret' = Ret("begin", id, id \in DOMAIN streamingToolCalls, name, <<>>, Void, Void)
    /\ sent' = [sent EXCEPT ![id] = <<>>]
    /\ preview' = [preview EXCEPT ![id] = Void]
    /\ past' = [past EXCEPT ![id] = "open"]

\* a slip of the reset: the tracked calls are kept
clearAllKeepsCalls ==
    /\ streamingToolCalls' = streamingToolCalls
    /\ ret' = Ret("reset", "", FALSE, <<>>, <<>>, Void, Void)
    /\ sent' = [i \in Ids |-> <<>>]
    /\ preview' = [i \in Ids |-> Void]
    /\ past' = [i \in Ids |-> IF past[i] = "never" THEN "never" ELSE "cleared"]

clearAllStreamingToolCalls ==
    /\ streamingToolCalls' = NoCalls
    /\ ret' = Ret("reset", "", FALSE, <<>>, <<>>, Void, Void)
    /\ sent' = [i \in Ids |-> <<>>]
    /\ preview' = [i \in Ids |-> Void]
    /\ past' = [i \in Ids |-> IF past[i] = "never" THEN "never" ELSE "cleared"]

\* streamingToolCalls.size > 0
hasActiveStreamingToolCalls == Cardinality(DOMAIN streamingToolCalls) > 0

\* the entry of the call after the chunk was accumulated
Accumulated(toolCall, chunk) ==
    [toolCall EXCEPT !.argumentsAccumulator = Accumulate(toolCall.argumentsAccumulator, chunk)]

\* a slip of the unknown id: an entry is made for it
UnknownIdCreates(op, id) ==
    /\ ret' = Ret(op, id, FALSE, <<>>, <<>>, Void, NullLogged("unknown tool call"))
    /\ streamingToolCalls' =
          MapSet(streamingToolCalls, id, [id |-> id, name |-> <<>>, argumentsAccumulator |-> <<>>])
    /\ UNCHANGED <<sent, preview, past>>

\* the unknown id of processStreamingChunk and finalizeStreamingToolCall
UnknownId(op, id) ==
    /\ ret' = Ret(op, id, FALSE, <<>>, <<>>, Void, NullLogged("unknown tool call"))
    /\ UNCHANGED <<streamingToolCalls, sent, preview, past>>

\* a slip of the accumulation: the fragment is added to every tracked call
processStreamingChunkCrossTalk(id, chunk) ==
    IF id \notin DOMAIN streamingToolCalls
    THEN UnknownId("append", id)
    ELSE LET toolCall == Accumulated(streamingToolCalls[id], chunk)
             result == StreamingChunkResult(toolCall)
         IN  /\ streamingToolCalls' =
                   [i \in DOMAIN streamingToolCalls |-> Accumulated(streamingToolCalls[i], chunk)]
             /\ ret' = Ret("append", id, TRUE, toolCall.name, toolCall.argumentsAccumulator,
                           preview[id], result)
             /\ sent' = [sent EXCEPT ![id] = Append(@, chunk)]
             /\ preview' = [preview EXCEPT ![id] = result]
             /\ UNCHANGED past

processStreamingChunk(id, chunk) ==
    IF id \notin DOMAIN streamingToolCalls
    THEN UnknownId("append", id)
    ELSE LET toolCall == Accumulated(streamingToolCalls[id], chunk)
             result == StreamingChunkResult(toolCall)
         IN  /\ streamingToolCalls' = MapSet(streamingToolCalls, id, toolCall)
             /\ ret' = Ret("append", id, TRUE, toolCall.name, toolCall.argumentsAccumulator,
                           preview[id], result)
             /\ sent' = [sent EXCEPT ![id] = Append(@, chunk)]
             /\ preview' = [preview EXCEPT ![id] = result]
             /\ UNCHANGED past

\* a slip of the clean-up: a failed finalize drops every tracked call
finalizeFailureClearsAll(id) ==
    IF id \notin DOMAIN streamingToolCalls
    THEN UnknownId("finalize", id)
    ELSE LET toolCall == streamingToolCalls[id]
             finalToolUse == parseToolCall([id |-> toolCall.id, name |-> toolCall.name,
                                            arguments |-> toolCall.argumentsAccumulator])
         IN  /\ ret' = Ret("finalize", id, TRUE, toolCall.name, toolCall.argumentsAccumulator,
                           preview[id], finalToolUse)
             /\ streamingToolCalls' =
                   IF finalToolUse.kind = "null" THEN NoCalls
                   ELSE MapDelete(streamingToolCalls, id)
             /\ sent' = [sent EXCEPT ![id] = <<>>]
             /\ preview' = [preview EXCEPT ![id] = Void]
             /\ past' = [past EXCEPT ![id] = "finalized"]

finalizeStreamingToolCall(id) ==
    IF id \notin DOMAIN streamingToolCalls
    THEN UnknownId("finalize", id)
    ELSE LET toolCall == streamingToolCalls[id]
             finalToolUse == parseToolCall([id |-> toolCall.id, name |-> toolCall.name,
                                            arguments |-> toolCall.argumentsAccumulator])
         IN  /\ ret' = Ret("finalize", id, TRUE, toolCall.name, toolCall.argumentsAccumulator,
                           preview[id], finalToolUse)
             /\ IF finalToolUse.kind = "throw"
                THEN UNCHANGED <<streamingToolCalls, sent, preview, past>>
                ELSE /\ streamingToolCalls' = MapDelete(streamingToolCalls, id)
                     /\ sent' = [sent EXCEPT ![id] = <<>>]
                     /\ preview' = [preview EXCEPT ![id] = Void]
                     /\ past' = [past EXCEPT ![id] = "finalized"]

(***************************************************************************)
(* The raw chunk tracker                                                   *)
(***************************************************************************)
\* A chunk is [index, id, name, arguments]; an id, a name or an argument
\* fragment the chunk does not have is "", <<>> and <<>>, which the tests
\* "if (id)", "if (name)" and "if (args)" treat as they treat an empty string.
\* rawChunkTracker is a sequence, a Map being iterated in insertion order;
\* its entries are [index, id, name, hasStarted, deltaBuffer].

\* ToolCallStreamEvent
StartEvent(id, name) == [type |-> "tool_call_start", id |-> id, name |-> name, delta |-> <<>>]
DeltaEvent(id, delta) == [type |-> "tool_call_delta", id |-> id, name |-> <<>>, delta |-> delta]
EndEvent(id) == [type |-> "tool_call_end", id |-> id, name |-> <<>>, delta |-> <<>>]

\* rawChunkTracker.get(index): the position of the entry, 0 when there is none
RawGet(tracker, index) ==
    IF \E p \in DOMAIN tracker : tracker[p].index = index
    THEN CHOOSE p \in DOMAIN tracker : tracker[p].index = index
    ELSE 0

\* a slip of the creation: an entry is made for a chunk without id
CreatesEntryAlways(chunk, tracker) == RawGet(tracker, chunk.index) = 0

\* processRawChunk: if (id && !tracked)
CreatesEntry(chunk, tracker) == chunk.id # "" /\ RawGet(tracker, chunk.index) = 0

\* a slip of the flush: the buffered fragments are emitted last first
FlushBufferReversed(tracked) ==
    [i \in 1..Len(tracked.deltaBuffer) |->
        DeltaEvent(tracked.id, tracked.deltaBuffer[Len(tracked.deltaBuffer) + 1 - i])]

\* processRawChunk: one delta event for each buffered fragment, in order
FlushBuffer(tracked) ==
    [i \in 1..Len(tracked.deltaBuffer) |-> DeltaEvent(tracked.id, tracked.deltaBuffer[i])]

\* a slip of the buffering: the fragment is not kept
BufferDeltaDropped(deltaBuffer, args) == deltaBuffer

\* tracked.deltaBuffer.push(args)
BufferDelta(deltaBuffer, args) == Append(deltaBuffer, args)

\* a slip of the start: the flushed fragments stay in deltaBuffer
TrackedChunkKeepsBuffer(tracked, chunk) ==
    LET named == IF chunk.name # <<>> THEN [tracked EXCEPT !.name = chunk.name] ELSE tracked
        starts == ~named.hasStarted /\ named.name # <<>>
        started == IF starts THEN [named EXCEPT !.hasStarted = TRUE] ELSE named
        startEvents == IF starts THEN <<StartEvent(named.id, named.name)>> \o FlushBuffer(named)
                       ELSE <<>>
    IN  IF chunk.arguments = <<>> THEN [tracked |-> started, events |-> startEvents]
        ELSE IF started.hasStarted
        THEN [tracked |-> started,
              events |-> Append(startEvents, DeltaEvent(started.id, chunk.arguments))]
        ELSE [tracked |-> [started EXCEPT !.deltaBuffer = BufferDelta(@, chunk.arguments)],
              events |-> startEvents]

\* processRawChunk on an entry (the tracked one, or the one just created):
\* the entry after the call and the events returned
TrackedChunk(tracked, chunk) ==
    LET named == IF chunk.name # <<>> THEN [tracked EXCEPT !.name = chunk.name] ELSE tracked
        starts == ~named.hasStarted /\ named.name # <<>>
        started == IF starts THEN [named EXCEPT !.hasStarted = TRUE, !.deltaBuffer = <<>>]
                   ELSE named
        startEvents == IF starts THEN <<StartEvent(named.id, named.name)>> \o FlushBuffer(named)
                       ELSE <<>>
    IN  IF chunk.arguments = <<>> THEN [tracked |-> started, events |-> startEvents]
        ELSE IF started.hasStarted
        THEN [tracked |-> started,
              events |-> Append(startEvents, DeltaEvent(started.id, chunk.arguments))]
        ELSE [tracked |-> [started EXCEPT !.deltaBuffer = BufferDelta(@, chunk.arguments)],
              events |-> startEvents]

\* a slip of the lookup: a chunk with another id replaces the entry of its index
RawChunkResultRebinds(tracker, chunk) ==
    LET p == RawGet(tracker, chunk.index)
        fresh == [index |-> chunk.index, id |-> chunk.id, name |-> chunk.name,
                  hasStarted |-> FALSE, deltaBuffer |-> <<>>]
    IN  IF CreatesEntry(chunk, tracker)
        THEN LET r == TrackedChunk(fresh, chunk)
             IN  [tracker |-> Append(tracker, r.tracked), events |-> r.events]
        ELSE IF p = 0 THEN [tracker |-> tracker, events |-> <<>>]
        ELSE LET r == TrackedChunk(IF chunk.id \notin {"", tracker[p].id} THEN fresh ELSE tracker[p],
                                   chunk)
             IN  [tracker |-> [tracker EXCEPT ![p] = r.tracked], events |-> r.events]

\* processRawChunk: the tracker after the call and the events returned
RawChunkResult(tracker, chunk) ==
    LET p == RawGet(tracker, chunk.index)
        fresh == [index |-> chunk.index, id |-> chunk.id, name |-> chunk.name,
                  hasStarted |-> FALSE, deltaBuffer |-> <<>>]
    IN  IF CreatesEntry(chunk, tracker)
        THEN LET r == TrackedChunk(fresh, chunk)
             IN  [tracker |-> Append(tracker, r.tracked), events |-> r.events]
        ELSE IF p = 0 THEN [tracker |-> tracker, events |-> <<>>]
        ELSE LET r == TrackedChunk(tracker[p], chunk)
             IN  [tracker |-> [tracker EXCEPT ![p] = r.tracked], events |-> r.events]

\* what history records of a call: finishReason is that of processFinishReason,
\* "" for the other methods
RawCall(op, chunk, events) ==
    [op |-> op, chunk |-> chunk, events |-> events, finishReason |-> ""]

NoChunk == [index |-> 0, id |-> "", name |-> <<>>, arguments |-> <<>>]

processRawChunk(chunk) ==
    LET r == RawChunkResult(rawChunkTracker, chunk)
    IN  /\ rawChunkTracker' = r.tracker
        /\ history' = Append(history, RawCall("chunk", chunk, r.events))

\* a slip of the end events: one for each entry, started or not
EndEventsOfAll(tracker, started) == [i \in 1..Len(tracker) |-> EndEvent(tracker[i].id)]

\* one end event for each entry, or for each started entry when started is
\* TRUE, in the order of the map
RECURSIVE EndEvents(_, _)
EndEvents(tracker, started) ==
    IF tracker = <<>> THEN <<>>
    ELSE (IF started => Head(tracker).hasStarted THEN <<EndEvent(Head(tracker).id)>> ELSE <<>>)
         \o EndEvents(Tail(tracker), started)

\* a slip of the finish reason: the entries it ends are removed
processFinishReasonClears(finishReason) ==
    /\ history' = Append(history,
          [RawCall("finish", NoChunk,
                   IF finishReason = "tool_calls" THEN EndEvents(rawChunkTracker, FALSE) ELSE <<>>)
              EXCEPT !.finishReason = finishReason])
    /\ rawChunkTracker' = IF finishReason = "tool_calls" THEN <<>> ELSE rawChunkTracker

\* a slip of the finish reason: end events for the started entries only
processFinishReasonStartedOnly(finishReason) ==
    /\ history' = Append(history,
          [RawCall("finish", NoChunk,
                   IF finishReason = "tool_calls" THEN EndEvents(rawChunkTracker, TRUE) ELSE <<>>)
              EXCEPT !.finishReason = finishReason])
    /\ UNCHANGED rawChunkTracker

processFinishReason(finishReason) ==
    /\ history' = Append(history,
          [RawCall("finish", NoChunk,
                   IF finishReason = "tool_calls" THEN EndEvents(rawChunkTracker, FALSE) ELSE <<>>)
              EXCEPT !.finishReason = finishReason])
    /\ UNCHANGED rawChunkTracker

\* a slip of the hard end: the tracker is cleared and no end event is returned
finalizeRawChunksSilent ==
    /\ history' = Append(history, RawCall("finalizeRaw", NoChunk, <<>>))
    /\ rawChunkTracker' = <<>>

\* a slip of the hard end: the tracker is not cleared
finalizeRawChunksKeeps ==
    /\ history' = Append(history, RawCall("finalizeRaw", NoChunk, EndEvents(rawChunkTracker, TRUE)))
    /\ rawChunkTracker' = rawChunkTracker

finalizeRawChunks ==
    /\ history' = Append(history, RawCall("finalizeRaw", NoChunk, EndEvents(rawChunkTracker, TRUE)))
    /\ rawChunkTracker' = <<>>

clearRawChunkState ==
    /\ rawChunkTracker' = <<>>
    /\ history' = <<>>

\* the events the last call returned
LastEvents == IF history = <<>> THEN <<>> ELSE history[Len(history)].events

(***************************************************************************)
(* Spec: two call ids open at once                                         *)
(***************************************************************************)
\* the largest number of fragments passed for one call
MaxFrags == 2

Names ==
    {<<"canvas_create">>, <<"mcp", "--", "srv", "--", "tool">>, <<"mcp", "--", "only">>, <<"bogus">>}

\* {"name":"v"   }   {}
Fragments ==
    {<<"{", Q, "name", Q, ":", Q, "v", Q>>, <<"}">>, <<"{", "}">>}

Begin == \E id \in Ids, name \in Names : startStreamingToolCall(id, name) /\ UNCHANGED rawVars
AppendDelta ==
    \E id \in Ids, chunk \in Fragments :
        Len(sent[id]) < MaxFrags /\ processStreamingChunk(id, chunk) /\ UNCHANGED rawVars
Finalize == \E id \in Ids : finalizeStreamingToolCall(id) /\ UNCHANGED rawVars
Reset == clearAllStreamingToolCalls /\ UNCHANGED rawVars

Next == Begin \/ AppendDelta \/ Finalize \/ Reset

Spec == Init /\ [][Next]_vars

(***************************************************************************)
(* SpecOne: one call id, every tool name                                   *)
(***************************************************************************)
\* the largest number of fragments passed for the call
MaxFragsOne == 3

NamesOne ==
    {<<n>> : n \in toolNames} \cup
    {<<"write_file">>, <<"my_tool">>, <<"bogus">>,
     <<"mcp", "--", "srv", "--", "tool">>, <<"mcp", "__", "srv", "__", "tool">>,
     <<"mcp", "--", "only">>}

\* {}   {"name":"v   "   }   {"path":"v"   ,"diff":"v"
FragmentsOne ==
    {<<"{", "}">>,
     <<"{", Q, "name", Q, ":", Q, "v">>,
     <<Q>>,
     <<"}">>,
     <<"{", Q, "path", Q, ":", Q, "v", Q>>,
     <<",", Q, "diff", Q, ":", Q, "v", Q>>}

BeginOne == \E name \in NamesOne : startStreamingToolCall("a", name) /\ UNCHANGED rawVars
AppendDeltaOne ==
    \E chunk \in FragmentsOne :
        Len(sent["a"]) < MaxFragsOne /\ processStreamingChunk("a", chunk) /\ UNCHANGED rawVars
FinalizeOne == finalizeStreamingToolCall("a") /\ UNCHANGED rawVars

NextOne == BeginOne \/ AppendDeltaOne \/ FinalizeOne \/ Reset

SpecOne == Init /\ [][NextOne]_vars

(***************************************************************************)
(* SpecDocs: one call id, whole argument documents                         *)
(***************************************************************************)
\* the largest number of documents passed for the call
MaxFragsDocs == 1

\* the keys of the documents, in the order the documents list them
DocKeys == <<"artifact_id", "server_name", "uri", "path", "content", "url", "result">>

\* "k":"s"
Member(k, s) == <<Q, k, Q, ":", Q>> \o s \o <<Q>>

\* {}, {"k":"s"} and {"k":"s","l":"v"}: s is the word v or the empty string
Docs ==
    {<<"{", "}">>} \cup
    {<<"{">> \o Member(DocKeys[i], s) \o <<"}">> :
        i \in DOMAIN DocKeys, s \in {<<"v">>, <<>>}} \cup
    {<<"{">> \o Member(DocKeys[p[1]], s) \o <<",">> \o Member(DocKeys[p[2]], <<"v">>) \o <<"}">> :
        p \in {q \in (DOMAIN DocKeys) \X (DOMAIN DocKeys) : q[1] < q[2]}, s \in {<<"v">>, <<>>}}

\* the static tools whose required fields the documents can hold, the alias,
\* a registry name and the designator custom_tool
NamesDocs ==
    {<<n>> : n \in {t \in DOMAIN RequiredArgs :
                      RequiredArgs[t] \subseteq {DocKeys[i] : i \in DOMAIN DocKeys}}} \cup
    {<<"write_file">>, <<"my_tool">>, <<"custom_tool">>}

BeginDocs == \E name \in NamesDocs : startStreamingToolCall("a", name) /\ UNCHANGED rawVars
AppendDeltaDocs ==
    \E chunk \in Docs :
        Len(sent["a"]) < MaxFragsDocs /\ processStreamingChunk("a", chunk) /\ UNCHANGED rawVars

NextDocs == BeginDocs \/ AppendDeltaDocs \/ FinalizeOne \/ Reset

SpecDocs == Init /\ [][NextDocs]_vars

(***************************************************************************)
(* SpecSplit: one browser_navigate call, its document cut in two           *)
(***************************************************************************)
\* the largest number of fragments passed for the call
MaxFragsSplit == 2

\* the value of the url argument: a string of two symbols
UrlValue == <<"h", "x">>

\* {"url":"hx"}
UrlDoc == <<"{">> \o Member("url", UrlValue) \o <<"}">>

\* the two fragments of the document cut after k symbols
SplitAt(k) == <<SubSeq(UrlDoc, 1, k), SubSeq(UrlDoc, k + 1, Len(UrlDoc))>>

\* every first and every second fragment of a cut, the empty ones included
FragmentsSplit == {SplitAt(k)[1] : k \in 0..Len(UrlDoc)} \cup {SplitAt(k)[2] : k \in 0..Len(UrlDoc)}

BeginSplit == startStreamingToolCall("a", <<"browser_navigate">>) /\ UNCHANGED rawVars
AppendDeltaSplit ==
    \E chunk \in FragmentsSplit :
        Len(sent["a"]) < MaxFragsSplit /\ processStreamingChunk("a", chunk) /\ UNCHANGED rawVars

NextSplit == BeginSplit \/ AppendDeltaSplit \/ FinalizeOne \/ Reset

SpecSplit == Init /\ [][NextSplit]_vars

(***************************************************************************)
(* SpecAbsorb: one call, fragments the lenient parser refuses              *)
(***************************************************************************)
\* the largest number of fragments passed for the call
MaxFragsAbsorb == 2

NamesAbsorb ==
    {<<"canvas_create">>, <<"write_file">>, <<"bogus">>, <<"mcp", "--", "srv", "--", "tool">>}

\* the empty fragment   }   {}   {"name":"v
FragmentsAbsorb ==
    {<<>>, <<"}">>, <<"{", "}">>, <<"{", Q, "name", Q, ":", Q, "v">>}

\* the call "a" is begun; fragments arrive for "a" and for "b", which never is
BeginAbsorb == \E name \in NamesAbsorb : startStreamingToolCall("a", name) /\ UNCHANGED rawVars
AppendDeltaAbsorb ==
    \E id \in Ids, chunk \in FragmentsAbsorb :
        Len(sent[id]) < MaxFragsAbsorb /\ processStreamingChunk(id, chunk) /\ UNCHANGED rawVars

NextAbsorb == BeginAbsorb \/ AppendDeltaAbsorb \/ FinalizeOne \/ Reset

SpecAbsorb == Init /\ [][NextAbsorb]_vars

(***************************************************************************)
(* SpecRaw: the raw chunk tracker, two stream indices                      *)
(***************************************************************************)
\* the largest number of calls of the raw chunk methods between two
\* clearRawChunkState
MaxChunks == 3

Indices == {0, 1}

\* {"name":"v"   }
RawFragments == {<<"{", Q, "name", Q, ":", Q, "v", Q>>, <<"}">>}

\* the id of the call streamed at each index
IndexId == [i \in Indices |-> IF i = 0 THEN "a" ELSE "b"]

\* every part of a chunk may be missing; an id is the one of its index
Chunks ==
    {chunk \in [index : Indices, id : {""} \cup Ids, name : {<<>>, <<"canvas_create">>},
                arguments : {<<>>} \cup RawFragments] :
        chunk.id \in {"", IndexId[chunk.index]}}

RawChunk ==
    \E chunk \in Chunks :
        Len(history) < MaxChunks /\ processRawChunk(chunk) /\ UNCHANGED <<callVars, pending>>
FinishReason ==
    \E finishReason \in {"tool_calls", "stop"} :
        Len(history) < MaxChunks /\ processFinishReason(finishReason)
            /\ UNCHANGED <<callVars, pending>>
FinalizeRaw == Len(history) < MaxChunks /\ finalizeRawChunks /\ UNCHANGED <<callVars, pending>>
ClearRaw == clearRawChunkState /\ UNCHANGED <<callVars, pending>>

NextRaw == RawChunk \/ FinishReason \/ FinalizeRaw \/ ClearRaw

SpecRaw == Init /\ [][NextRaw]_vars

(***************************************************************************)
(* SpecPipe: one stream index, the events passed on to the streaming calls *)
(***************************************************************************)
\* the largest number of calls of the raw chunk methods between two requests
MaxChunksPipe == 3

ChunksPipe == {chunk \in Chunks : chunk.index = 0}

\* the consumer takes the events a call returned before it makes another call
Emit == /\ pending = <<>>
        /\ Len(history) < MaxChunksPipe
        /\ pending' = history'[Len(history')].events
        /\ UNCHANGED callVars

RawChunkPipe == \E chunk \in ChunksPipe : processRawChunk(chunk) /\ Emit
FinishReasonPipe ==
    \E finishReason \in {"tool_calls", "stop"} : processFinishReason(finishReason) /\ Emit
FinalizeRawPipe == finalizeRawChunks /\ Emit

\* the consumer passes the first pending event on: start to
\* startStreamingToolCall, delta to processStreamingChunk, end to
\* finalizeStreamingToolCall
Forward ==
    /\ pending # <<>>
    /\ LET event == Head(pending)
       IN  CASE event.type = "tool_call_start" -> startStreamingToolCall(event.id, event.name)
             [] event.type = "tool_call_delta" -> processStreamingChunk(event.id, event.delta)
             [] event.type = "tool_call_end" -> finalizeStreamingToolCall(event.id)
    /\ pending' = Tail(pending)
    /\ UNCHANGED <<rawChunkTracker, history>>

\* a new request: both maps are cleared
NewRequest ==
    /\ pending = <<>>
    /\ clearRawChunkState
    /\ clearAllStreamingToolCalls
    /\ UNCHANGED pending

NextPipe == RawChunkPipe \/ FinishReasonPipe \/ FinalizeRawPipe \/ Forward \/ NewRequest

SpecPipe == Init /\ [][NextPipe]_vars

(***************************************************************************)
(* SpecBoth: the streaming calls and the raw chunk tracker, every method   *)
(* called in any order                                                     *)
(***************************************************************************)
\* the largest number of fragments passed for one call
MaxFragsBoth == 1

\* the largest number of calls of the raw chunk methods between two
\* clearRawChunkState
MaxChunksBoth == 2

\* a chunk that starts the call "a" at index 0, and one that continues it
ChunksBoth ==
    {[index |-> 0, id |-> "a", name |-> <<"canvas_create">>, arguments |-> <<>>],
     [index |-> 0, id |-> "", name |-> <<>>, arguments |-> <<"}">>]}

BeginBoth == \E id \in Ids : startStreamingToolCall(id, <<"browser_close">>) /\ UNCHANGED rawVars
AppendDeltaBoth ==
    \E id \in Ids :
        Len(sent[id]) < MaxFragsBoth /\ processStreamingChunk(id, <<"{", "}">>) /\ UNCHANGED rawVars
RawChunkBoth ==
    \E chunk \in ChunksBoth :
        Len(history) < MaxChunksBoth /\ processRawChunk(chunk) /\ UNCHANGED <<callVars, pending>>
FinishReasonBoth ==
    \E finishReason \in {"tool_calls", "stop"} :
        Len(history) < MaxChunksBoth /\ processFinishReason(finishReason)
            /\ UNCHANGED <<callVars, pending>>
FinalizeRawBoth ==
    Len(history) < MaxChunksBoth /\ finalizeRawChunks /\ UNCHANGED <<callVars, pending>>

\* a slip of the clearing: the streaming calls are dropped with the tracker
ClearRawBothDropsCalls == clearRawChunkState /\ clearAllStreamingToolCalls /\ UNCHANGED pending

ClearRawBoth == clearRawChunkState /\ UNCHANGED <<callVars, pending>>

NextBoth ==
    \/ BeginBoth \/ AppendDeltaBoth \/ Finalize \/ Reset
    \/ RawChunkBoth \/ FinishReasonBoth \/ FinalizeRawBoth \/ ClearRawBoth

SpecBoth == Init /\ [][NextBoth]_vars

(***************************************************************************)
(* SpecCustom: one call of a registry tool or of a static tool, arguments  *)
(* with a key outside toolParamNames                                       *)
(***************************************************************************)
\* the largest number of fragments passed for the call
MaxFragsCustom == 3

NamesCustom == {<<"my_tool">>, <<"canvas_create">>}

\* {"extra":"v"   ,"name":"v"   }   {}   {"name":"v"
FragmentsCustom ==
    {<<"{">> \o Member("extra", <<"v">>), <<",">> \o Member("name", <<"v">>), <<"}">>,
     <<"{", "}">>, <<"{">> \o Member("name", <<"v">>)}

BeginCustom == \E name \in NamesCustom : startStreamingToolCall("a", name) /\ UNCHANGED rawVars
AppendDeltaCustom ==
    \E chunk \in FragmentsCustom :
        Len(sent["a"]) < MaxFragsCustom /\ processStreamingChunk("a", chunk) /\ UNCHANGED rawVars

NextCustom == BeginCustom \/ AppendDeltaCustom \/ FinalizeOne \/ Reset

SpecCustom == Init /\ [][NextCustom]_vars

(***************************************************************************)
(* SpecBool: one call of a tool with a boolean field, the field given as a *)
(* boolean or as a string                                                  *)
(***************************************************************************)
\* the largest number of documents passed for the call
MaxFragsBool == 1

\* NativeToolArgs: the field of each tool that is declared boolean
BooleanField ==
    [list_files |-> "recursive",
     browser_reload |-> "ignoreCache",
     browser_inspect_element |-> "includeInherited",
     browser_set_viewport |-> "mobile",
     browser_get_network_requests |-> "includeStaticAssets",
     component_remove |-> "deleteSourceCode"]

\* the texts given for the boolean field: "true" "TRUE" "false" "yes" true false
BooleanTexts ==
    {<<Q, "true", Q>>, <<Q, "TRUE", Q>>, <<Q, "false", Q>>, <<Q, "yes", Q>>, <<"true">>, <<"false">>}

\* {"<required>":"v",...,"<boolean field>":<text>} for the tool
DocBool(tool, text) ==
    LET required == RequiredArgs[tool]
        first == IF required = {} THEN <<>>
                 ELSE Member(CHOOSE k \in required : TRUE, <<"v">>) \o <<",">>
    IN  <<"{">> \o first \o <<Q, BooleanField[tool], Q, ":">> \o text \o <<"}">>

DocsBool == {DocBool(tool, text) : tool \in DOMAIN BooleanField, text \in BooleanTexts}

BeginBool == \E tool \in DOMAIN BooleanField : startStreamingToolCall("a", <<tool>>) /\ UNCHANGED rawVars
AppendDeltaBool ==
    \E chunk \in DocsBool :
        Len(sent["a"]) < MaxFragsBool /\ processStreamingChunk("a", chunk) /\ UNCHANGED rawVars

NextBool == BeginBool \/ AppendDeltaBool \/ FinalizeOne \/ Reset

SpecBool == Init /\ [][NextBool]_vars

(***************************************************************************)
(* SpecIds: one stream index, chunks that carry either id and either name  *)
(***************************************************************************)
\* the largest number of calls of the raw chunk methods between two
\* clearRawChunkState
MaxChunksIds == 3

\* every part of a chunk of index 0 may be missing; the id and the name may
\* differ from those of the chunks before
ChunksIds ==
    [index : {0}, id : {""} \cup Ids, name : {<<>>, <<"canvas_create">>, <<"browser_close">>},
     arguments : {<<>>, <<"}">>}]

RawChunkIds ==
    \E chunk \in ChunksIds :
        Len(history) < MaxChunksIds /\ processRawChunk(chunk) /\ UNCHANGED <<callVars, pending>>
FinalizeRawIds ==
    Len(history) < MaxChunksIds /\ finalizeRawChunks /\ UNCHANGED <<callVars, pending>>

NextIds == RawChunkIds \/ FinalizeRawIds \/ ClearRaw

SpecIds == Init /\ [][NextIds]_vars

(***************************************************************************)
(* SpecNulls: one call, every required field present with an empty string, *)
(* null or a string as its value                                           *)
(***************************************************************************)
\* the largest number of documents passed for the call
MaxFragsNulls == 1

ToolsNulls ==
    {"attempt_completion", "execute_command", "canvas_create", "apply_diff", "read_file",
     "search_and_replace"}

\* the texts of a value: ""   null   "v"
ValueTexts == {<<Q, Q>>, <<"null">>, <<Q, "v", Q>>}

\* the members "k":text of the keys, separated by commas, in some order
RECURSIVE MembersText(_, _)
MembersText(keys, texts) ==
    IF keys = {} THEN <<>>
    ELSE LET k == CHOOSE x \in keys : TRUE
         IN  <<Q, k, Q, ":">> \o texts[k]
                \o (IF keys = {k} THEN <<>> ELSE <<",">>)
                \o MembersText(keys \ {k}, texts)

\* the documents that give every required field of the tool a value
DocsNulls(tool) ==
    {<<"{">> \o MembersText(RequiredArgs[tool], texts) \o <<"}">> :
        texts \in [RequiredArgs[tool] -> ValueTexts]}

BeginNulls == \E tool \in ToolsNulls : startStreamingToolCall("a", <<tool>>) /\ UNCHANGED rawVars
AppendDeltaNulls ==
    \E tool \in ToolsNulls : \E chunk \in DocsNulls(tool) :
        Len(sent["a"]) < MaxFragsNulls /\ processStreamingChunk("a", chunk) /\ UNCHANGED rawVars

NextNulls == BeginNulls \/ AppendDeltaNulls \/ FinalizeOne \/ Reset

SpecNulls == Init /\ [][NextNulls]_vars

(***************************************************************************)
(* SpecDet: two call ids whose texts arrive in different splits            *)
(***************************************************************************)
\* the largest number of fragments passed for one call
MaxFragsDet == 2

NamesDet == {<<"canvas_create">>, <<"browser_close">>}

\* {   }   {}   {"name":"v"
FragmentsDet ==
    {<<"{">>, <<"}">>, <<"{", "}">>, <<"{", Q, "name", Q, ":", Q, "v", Q>>}

BeginDet == \E id \in Ids, name \in NamesDet : startStreamingToolCall(id, name) /\ UNCHANGED rawVars
AppendDeltaDet ==
    \E id \in Ids, chunk \in FragmentsDet :
        Len(sent[id]) < MaxFragsDet /\ processStreamingChunk(id, chunk) /\ UNCHANGED rawVars

NextDet == BeginDet \/ AppendDeltaDet \/ Finalize \/ Reset

SpecDet == Init /\ [][NextDet]_vars

(***************************************************************************)
(* Properties                                                              *)
(***************************************************************************)
\* the concatenation of a sequence of fragments, in order
RECURSIVE Concat(_)
Concat(ss) == IF ss = <<>> THEN <<>> ELSE Head(ss) \o Concat(Tail(ss))

Tracked(id) == id \in DOMAIN streamingToolCalls
Text(id) == streamingToolCalls[id].argumentsAccumulator

\* C1: the accumulated text of every tracked call is the concatenation, in
\* call order, of the fragments passed to processStreamingChunk for it since
\* it was begun, whether or not the calls returned null.
C1_AccumulatedIsConcat == \A id \in Ids : Tracked(id) => Text(id) = Concat(sent[id])

\* two different fragments were passed, and the last call returned null
C1_Witness ==
    /\ ret.op = "append" /\ ret.tracked /\ ret.val.kind = "null"
    /\ Tracked(ret.id)
    /\ Len(sent[ret.id]) = 2
    /\ sent[ret.id][1] # sent[ret.id][2]
    /\ Text(ret.id) = sent[ret.id][1] \o sent[ret.id][2]

\* C2: a processStreamingChunk for one id leaves the name and the text of
\* every other tracked call as they were, and the text of its own call is the
\* concatenation of the fragments passed for that id.
C2_Interleaving ==
    [][ret'.op = "append" =>
          \A i \in DOMAIN streamingToolCalls :
              /\ i \in DOMAIN streamingToolCalls'
              /\ streamingToolCalls'[i].name = streamingToolCalls[i].name
              /\ IF i = ret'.id
                 THEN streamingToolCalls'[i].argumentsAccumulator = Concat(sent'[i])
                 ELSE streamingToolCalls'[i].argumentsAccumulator = Text(i)]_vars

\* both calls are open with two fragments each, the texts and names differ
C2_Witness ==
    /\ ret.op = "append" /\ ret.tracked
    /\ \A i \in Ids : Tracked(i) /\ Len(sent[i]) = 2 /\ Text(i) = Concat(sent[i])
    /\ Text("a") # Text("b")
    /\ streamingToolCalls["a"].name # streamingToolCalls["b"].name

\* C3: processStreamingChunk and finalizeStreamingToolCall for an id that is
\* not tracked (never begun, or finalized before) return null, do not throw,
\* make no entry and leave every tracked call as it was.
C3_UnknownId ==
    [][(ret'.op \in {"append", "finalize"} /\ ~Tracked(ret'.id)) =>
          /\ ret'.val.kind = "null"
          /\ ~ret'.tracked
          /\ streamingToolCalls' = streamingToolCalls]_vars

\* a second finalize of a finalized id, while the other call is open with text
C3_Witness ==
    /\ ret.op = "finalize" /\ ~ret.tracked /\ ret.val.kind = "null"
    /\ past[ret.id] = "finalized"
    /\ ~Tracked(ret.id)
    /\ \E i \in Ids \ {ret.id} : Tracked(i) /\ Text(i) # <<>>

\* C4: after finalizeStreamingToolCall of a tracked id the entry of the id is
\* gone, whatever the outcome.
C4_FinalizeDeletes == (ret.op = "finalize" /\ ret.tracked) => ~Tracked(ret.id)

\* the finalize failed for a missing required argument
C4_Witness ==
    /\ ret.op = "finalize" /\ ret.tracked /\ ret.val.kind = "null"
    /\ ret.name = <<"canvas_create">> /\ ret.text = <<"{", "}">>
    /\ ~Tracked(ret.id)

\* the last call was finalizeStreamingToolCall of a tracked id
Finalized == ret.op = "finalize" /\ ret.tracked

\* the name of the finalized call after alias resolution
Resolved == resolveToolAlias(ret.name)

\* the finalized call is one of a dynamic MCP tool, in either separator form
DynamicName(name) == StartsWith(normalizeMcpToolName(name), mcpPrefix)

\* the finalized call is one of a static tool: in toolNames, not in the registry
StaticCall ==
    ~DynamicName(ret.name) /\ IsToolName(Resolved) /\ ~customToolRegistryHas(Resolved)

\* the accumulated text of the finalized call is a JSON document (or empty,
\* which is taken as {}) that lacks a required field of the tool
LacksRequired ==
    /\ StaticCall
    /\ Resolved[1] \in DOMAIN RequiredArgs
    /\ ret.text = <<>> \/ (JSONParse(ret.text).ok /\ JSONParse(ret.text).v.t # "null")
    /\ \E k \in RequiredArgs[Resolved[1]] :
          ~Defined(Get(IF ret.text = <<>> THEN EmptyObj ELSE JSONParse(ret.text).v, k))

\* C5: a partial=false record that finalize returns for a static tool has
\* typed nativeArgs in which every required field of the tool is defined.
C5_RequiredFieldsPresent ==
    (Finalized /\ ret.val.kind = "tool_use" /\ StaticCall) =>
        /\ ~ret.val.partial
        /\ ret.val.nativeArgs.kind = "typed"
        /\ Resolved[1] \in DOMAIN RequiredArgs =>
              \A k \in RequiredArgs[Resolved[1]] :
                  /\ k \in DOMAIN ret.val.nativeArgs.fields
                  /\ Defined(ret.val.nativeArgs.fields[k])

\* finalize of canvas_create on the text {} returned no record
C5_Witness ==
    /\ Finalized /\ ret.name = <<"canvas_create">> /\ ret.text = <<"{", "}">>
    /\ LacksRequired
    /\ ret.val.kind # "tool_use"

\* C6 as claimed: a missing required field reaches the caller of finalize as
\* a thrown exception.
C6_MissingRequiredThrows == (Finalized /\ LacksRequired) => ret.val.kind = "throw"

\* C6: a missing required field makes finalize return null after the message
\* of the catch block, and the entry is deleted; no exception leaves finalize.
C6_MissingRequiredIsNull ==
    (Finalized /\ LacksRequired) =>
        /\ ret.val.kind = "null"
        /\ ret.val.log = "Failed to parse tool call arguments"
        /\ ~Tracked(ret.id)

\* apply_diff with a path and no diff: finalize returned null
C6_Witness ==
    /\ Finalized /\ ret.name = <<"apply_diff">> /\ LacksRequired
    /\ Defined(Get(JSONParse(ret.text).v, "path"))
    /\ ret.val.kind = "null"

\* C7: finalize of a call whose accumulated text is not empty and is not a
\* JSON document returns null and ends the call (its entry is deleted), also
\* when the last processStreamingChunk of the call returned a partial record.
C7_StrictParse ==
    (Finalized /\ ret.text # <<>> /\ ~JSONParse(ret.text).ok) =>
        ret.val.kind = "null" /\ ~Tracked(ret.id)

\* the text is cut inside a string; the last processStreamingChunk returned a
\* partial record with the field decoded, finalize returned null
C7_Witness ==
    /\ Finalized /\ ret.name = <<"canvas_create">>
    /\ ret.text = <<"{", Q, "name", Q, ":", Q, "v">>
    /\ ret.prev.kind = "tool_use" /\ ret.prev.partial
    /\ ret.prev.nativeArgs.fields["name"] = Str(<<"v">>)
    /\ ret.val.kind = "null"

\* C8: finalize of a call whose name is neither dynamic, nor a static tool
\* name, nor in the registry returns null for every accumulated text, and
\* reports the invalid name.
C8_UnknownNameFails ==
    (Finalized /\ ~DynamicName(ret.name) /\ ~IsToolName(Resolved) /\ ~customToolRegistryHas(Resolved)) =>
        ret.val.kind = "null" /\ ret.val.log = "Invalid tool name"

\* the accumulated text of the unknown name was a valid JSON document
C8_Witness ==
    /\ Finalized /\ ret.name = <<"bogus">>
    /\ JSONParse(ret.text).ok /\ JSONParse(ret.text).v.t = "obj"
    /\ DOMAIN JSONParse(ret.text).v.f # {}
    /\ ret.val.kind = "null"

\* C9 as claimed: processStreamingChunk returns null for every call of a
\* dynamic MCP tool, in the canonical and in the underscore form of the name.
C9_DynamicNeverPartial ==
    (ret.op = "append" /\ ret.tracked /\ DynamicName(ret.name)) => ret.val.kind = "null"

\* C10 as claimed: the name of the McpToolUse that finalize returns is the
\* name the call was begun with.
C10_NameVerbatim ==
    (Finalized /\ ret.val.kind = "mcp_tool_use") => ret.val.name = ret.name

\* the last call was finalizeStreamingToolCall of a static tool whose
\* accumulated text is a complete JSON document, and the last
\* processStreamingChunk of the call (on the same text) returned typed fields
CompleteAfterPartial ==
    /\ Finalized /\ StaticCall
    /\ JSONParse(ret.text).ok
    /\ ret.prev.kind = "tool_use" /\ ret.prev.nativeArgs.kind = "typed"

\* the typed fields of a record that are present (not undefined)
PresentFields(val) ==
    IF val.kind = "tool_use" /\ val.nativeArgs.kind = "typed"
    THEN {k \in DOMAIN val.nativeArgs.fields : Defined(val.nativeArgs.fields[k])}
    ELSE {}

\* C11 as claimed: for every static tool and every complete JSON document,
\* every typed field present in the last partial record is present with an
\* equal value in the record finalize returns.
C11_PartialSubsetOfFinal ==
    CompleteAfterPartial =>
        \A k \in PresentFields(ret.prev) :
            /\ k \in PresentFields(ret.val)
            /\ ret.val.nativeArgs.fields[k] = ret.prev.nativeArgs.fields[k]

\* C11: whenever finalize returns a record for a static tool on a complete
\* JSON document, every typed field present in the last partial record is
\* present in it with an equal value; when a required field is missing,
\* finalize returns null although the partial record had typed fields.
C11_PartialSubsetWhenFinal ==
    (CompleteAfterPartial /\ ret.val.kind = "tool_use") =>
        \A k \in PresentFields(ret.prev) :
            /\ k \in PresentFields(ret.val)
            /\ ret.val.nativeArgs.fields[k] = ret.prev.nativeArgs.fields[k]

\* apply_diff, the document delivered in three fragments: both records have
\* the two fields
C11_Witness ==
    /\ CompleteAfterPartial /\ ret.name = <<"apply_diff">>
    /\ ret.val.kind = "tool_use"
    /\ PresentFields(ret.prev) = {"path", "diff"}
    /\ ret.val.nativeArgs.fields = ret.prev.nativeArgs.fields

\* C12 as claimed: for every static tool with a case in the strict switch and
\* every complete argument object that has the required fields of the tool,
\* the partial switch builds the same nativeArgs as the strict switch.
C12_SameTable ==
    (/\ Finalized /\ StaticCall /\ Resolved[1] \in StrictCases
     /\ JSONParse(ret.text).ok /\ JSONParse(ret.text).v.t = "obj"
     /\ ~LacksRequired
     /\ ret.val.kind = "tool_use") =>
        /\ ret.prev.kind = "tool_use"
        /\ ret.prev.nativeArgs = ret.val.nativeArgs

\* the fragments passed for the call are the two parts of a cut of UrlDoc
IsSplit(ss) == \E k \in 0..Len(UrlDoc) : ss = SplitAt(k)

\* C13: when the document {"url": u} of a browser_navigate call was passed as
\* the two fragments of a cut at any position, the last processStreamingChunk
\* returned a partial=true record with nativeArgs.url = u and the finalize
\* that follows returns a partial=false record with the same nativeArgs.
C13_StreamingBuildUp ==
    [][(/\ ret'.op = "finalize" /\ ret'.tracked
        /\ ret'.name = <<"browser_navigate">>
        /\ IsSplit(sent[ret'.id])) =>
          /\ preview[ret'.id].kind = "tool_use" /\ preview[ret'.id].partial
          /\ preview[ret'.id].nativeArgs = TypedArgs([k \in {"url"} |-> Str(UrlValue)])
          /\ ret'.prev = preview[ret'.id]
          /\ ret'.val.kind = "tool_use" /\ ~ret'.val.partial
          /\ ret'.val.nativeArgs = preview[ret'.id].nativeArgs]_vars

\* the document was cut inside the value of url: the first fragment alone
\* gave a shorter url, the second one completed it
C13_Witness ==
    /\ ret.op = "append" /\ ret.name = <<"browser_navigate">>
    /\ sent["a"] = SplitAt(7)
    /\ ret.prev.kind = "tool_use"
    /\ ret.prev.nativeArgs.fields["url"] = Str(<<"h">>)
    /\ ret.val.kind = "tool_use" /\ ret.val.partial
    /\ ret.val.nativeArgs.fields["url"] = Str(UrlValue)

\* C14: every ToolUse that processStreamingChunk or finalize returns is named
\* by the alias-resolved name of the call; it has originalName exactly when
\* that name differs from the name the call was begun with, and originalName
\* is then the begun name; the last partial record and the final record of a
\* call have the same name and originalName.
C14_AliasRoundTrip ==
    (ret.op \in {"append", "finalize"} /\ ret.tracked /\ ret.val.kind = "tool_use") =>
        /\ ret.val.name = Resolved
        /\ (ret.val.originalName # <<>>) <=> (Resolved # ret.name)
        /\ (ret.val.originalName # <<>>) => ret.val.originalName = ret.name
        /\ (Finalized /\ ret.prev.kind = "tool_use") =>
              /\ ret.prev.name = ret.val.name
              /\ ret.prev.originalName = ret.val.originalName

\* a call begun as write_file: the partial and the final record are named
\* write_to_file and carry originalName write_file
C14_Witness ==
    /\ Finalized /\ ret.name = <<"write_file">>
    /\ ret.val.kind = "tool_use" /\ ret.val.name = <<"write_to_file">>
    /\ ret.val.originalName = <<"write_file">>
    /\ ret.prev.kind = "tool_use" /\ ret.prev.name = <<"write_to_file">>
    /\ ret.prev.originalName = <<"write_file">>

\* C15: every record processStreamingChunk returns has partial = true; every
\* record finalize returns, ToolUse or McpToolUse, has partial = false.
C15_PartialFlag ==
    /\ (ret.op = "append" /\ ret.val.kind \in {"tool_use", "mcp_tool_use"}) => ret.val.partial
    /\ (ret.op = "finalize" /\ ret.val.kind \in {"tool_use", "mcp_tool_use"}) => ~ret.val.partial

\* a call of which the last processStreamingChunk returned a record with
\* partial = true and finalize one with partial = false
C15_Witness ==
    /\ Finalized /\ ret.name = <<"canvas_create">>
    /\ ret.prev.kind = "tool_use" /\ ret.prev.partial
    /\ ret.val.kind = "tool_use" /\ ~ret.val.partial

\* C16: after clearAllStreamingToolCalls no call is tracked, whatever calls
\* were open: hasActiveStreamingToolCalls is false, and processStreamingChunk
\* and finalize for an id begun before the reset return null until the id is
\* begun again.
C16_ResetClears ==
    [][/\ ret'.op = "reset" => ~hasActiveStreamingToolCalls'
       /\ \A id \in Ids : past'[id] = "cleared" => id \notin DOMAIN streamingToolCalls'
       /\ (ret'.op \in {"append", "finalize"} /\ past[ret'.id] = "cleared") =>
              ret'.val.kind = "null" /\ ~ret'.tracked]_vars

\* processStreamingChunk for an id begun before the reset and not since
\* returned null, while the other call is open
C16_Witness ==
    /\ ret.op = "append" /\ ~ret.tracked /\ ret.val.kind = "null"
    /\ past[ret.id] = "cleared"
    /\ \E i \in Ids \ {ret.id} : past[i] = "open" /\ Tracked(i)
    /\ hasActiveStreamingToolCalls

\* C17: startStreamingToolCall for an id that is tracked replaces the entry
\* by one with the new name and an empty text, whatever text was accumulated;
\* a later finalize parses only the fragments passed after that begin.
C17_BeginOverwrites ==
    [][/\ ret'.op = "begin" =>
              /\ streamingToolCalls'[ret'.id] =
                    [id |-> ret'.id, name |-> ret'.name, argumentsAccumulator |-> <<>>]
              /\ sent'[ret'.id] = <<>>
       /\ (ret'.op = "finalize" /\ ret'.tracked) =>
              /\ ret'.text = Concat(sent[ret'.id])
              /\ ret'.name = streamingToolCalls[ret'.id].name]_vars

\* a begin of an id that was tracked: its entry has the new name and no text
C17_Witness ==
    /\ ret.op = "begin" /\ ret.tracked
    /\ Tracked(ret.id) /\ Text(ret.id) = <<>>
    /\ streamingToolCalls[ret.id].name = <<"canvas_create">>
    /\ past[ret.id] = "open"

\* the step is a call of processRawChunk
IsChunkStep == Len(history') = Len(history) + 1 /\ history'[Len(history')].op = "chunk"

\* the chunk of the step and the events it returned
StepChunk == history'[Len(history')].chunk
StepEvents == history'[Len(history')].events

\* C18: a chunk without id for an index that is not tracked returns no event
\* and leaves the tracker as it was, so its name and fragment are not kept;
\* an entry is made only by a chunk with an id for an index that is not
\* tracked, and holds nothing of the chunks before it.
C18_NoIdDropped ==
    [][IsChunkStep =>
          LET before == RawGet(rawChunkTracker, StepChunk.index)
              after == RawGet(rawChunkTracker', StepChunk.index)
          IN  /\ (before = 0 /\ StepChunk.id = "") =>
                    StepEvents = <<>> /\ rawChunkTracker' = rawChunkTracker
              /\ (before = 0 /\ after # 0) =>
                    /\ StepChunk.id # ""
                    /\ Len(rawChunkTracker') = Len(rawChunkTracker) + 1
                    /\ rawChunkTracker'[after].id = StepChunk.id
                    /\ rawChunkTracker'[after].name = StepChunk.name
                    /\ rawChunkTracker'[after].deltaBuffer \in {<<>>, <<StepChunk.arguments>>}
              /\ before # 0 => Len(rawChunkTracker') = Len(rawChunkTracker)]_vars

\* a chunk with a name and a fragment and no id was dropped; the chunk with
\* the id that followed made an entry without name, its own fragment buffered
C18_Witness ==
    /\ Len(history) = 2
    /\ history[1].op = "chunk" /\ history[2].op = "chunk"
    /\ history[1].chunk.id = "" /\ history[1].chunk.name # <<>>
    /\ history[1].chunk.arguments # <<>> /\ history[1].events = <<>>
    /\ history[2].chunk.index = history[1].chunk.index
    /\ history[2].chunk.id = "a" /\ history[2].chunk.arguments # history[1].chunk.arguments
    /\ Len(rawChunkTracker) = 1
    /\ rawChunkTracker[1].name = <<>> /\ ~rawChunkTracker[1].hasStarted
    /\ rawChunkTracker[1].deltaBuffer = <<history[2].chunk.arguments>>

\* every delta event the last call returned comes after a start event of its
\* id, returned before it by that call or by an earlier one
StartPrecedesDeltas ==
    \A p \in DOMAIN LastEvents :
        LastEvents[p].type = "tool_call_delta" =>
            \E i \in DOMAIN history :
                \E q \in DOMAIN history[i].events :
                    /\ i < Len(history) \/ q < p
                    /\ history[i].events[q].type = "tool_call_start"
                    /\ history[i].events[q].id = LastEvents[p].id

\* the delta event of the fragment of a chunk, if it has one
OwnDelta(id, chunk) ==
    IF chunk.arguments = <<>> THEN <<>> ELSE <<DeltaEvent(id, chunk.arguments)>>

\* C19: processRawChunk returns the start event of an entry in the call in
\* which the entry first has a name; the start event is followed in the same
\* call by one delta event for each buffered fragment, in the order they
\* arrived, and then by the delta event of the fragment of the chunk itself;
\* before that call no event is returned for the entry, after it only the
\* delta event of the chunk; so a start event precedes every delta event of
\* its id.
C19_StartThenBufferedDeltas ==
    [][IsChunkStep =>
          LET p == RawGet(rawChunkTracker, StepChunk.index)
              q == RawGet(rawChunkTracker', StepChunk.index)
              buffered == IF p = 0 THEN <<>> ELSE rawChunkTracker[p].deltaBuffer
              wasStarted == p # 0 /\ rawChunkTracker[p].hasStarted
              hadName == p # 0 /\ rawChunkTracker[p].name # <<>>
          IN  /\ q # 0 =>
                    LET tracked == rawChunkTracker'[q]
                    IN  /\ tracked.hasStarted <=> tracked.name # <<>>
                        /\ (~hadName /\ tracked.name # <<>>) =>
                              StepEvents =
                                  <<StartEvent(tracked.id, tracked.name)>>
                                  \o [i \in 1..Len(buffered) |-> DeltaEvent(tracked.id, buffered[i])]
                                  \o OwnDelta(tracked.id, StepChunk)
                        /\ tracked.name = <<>> =>
                              /\ StepEvents = <<>>
                              /\ tracked.deltaBuffer =
                                    buffered \o (IF StepChunk.arguments = <<>> THEN <<>>
                                                 ELSE <<StepChunk.arguments>>)
                        /\ hadName => wasStarted /\ StepEvents = OwnDelta(tracked.id, StepChunk)
              /\ StartPrecedesDeltas']_vars

\* two fragments were buffered before the name arrived; the chunk with the
\* name and a third fragment returned start, the two buffered deltas in
\* order and its own delta
C19_Witness ==
    /\ Len(history) = 3
    /\ \A i \in 1..3 : history[i].op = "chunk" /\ history[i].chunk.index = 0
    /\ history[1].events = <<>> /\ history[2].events = <<>>
    /\ history[1].chunk.arguments # history[2].chunk.arguments
    /\ history[2].chunk.arguments # <<>>
    /\ LastEvents =
          <<StartEvent("a", <<"canvas_create">>),
            DeltaEvent("a", history[1].chunk.arguments),
            DeltaEvent("a", history[2].chunk.arguments),
            DeltaEvent("a", history[1].chunk.arguments)>>

\* the calls since the tracker was last emptied by finalizeRawChunks
SinceFinalizeRaw ==
    LET ends == {i \in DOMAIN history : history[i].op = "finalizeRaw"}
        last == IF ends = {} THEN 0 ELSE CHOOSE i \in ends : \A j \in ends : j <= i
    IN  SubSeq(history, last + 1, Len(history))

\* the argument fragments of a sequence of chunk calls, in arrival order
RECURSIVE ArrivedFragments(_)
ArrivedFragments(h) ==
    IF h = <<>> THEN <<>>
    ELSE (IF Head(h).chunk.arguments = <<>> THEN <<>> ELSE <<Head(h).chunk.arguments>>)
         \o ArrivedFragments(Tail(h))

\* the id arrived no later than the first argument fragment
IdFirst(h) ==
    \A p \in DOMAIN h :
        h[p].chunk.arguments # <<>> => \E q \in 1..p : h[q].chunk.id # ""

\* C20: when the chunks of an index brought the id no later than the first
\* fragment and the name at some point, and every event returned was passed
\* on to startStreamingToolCall / processStreamingChunk, the streaming call
\* of the id has received the fragments of the chunks in arrival order and
\* its text is their concatenation, however many were buffered.
C20_TrackerKeepsOrder ==
    (/\ pending = <<>>
     /\ \A i \in DOMAIN SinceFinalizeRaw : SinceFinalizeRaw[i].op = "chunk"
     /\ IdFirst(SinceFinalizeRaw)
     /\ rawChunkTracker # <<>> /\ rawChunkTracker[1].hasStarted) =>
        /\ Tracked(rawChunkTracker[1].id)
        /\ sent[rawChunkTracker[1].id] = ArrivedFragments(SinceFinalizeRaw)
        /\ Text(rawChunkTracker[1].id) = Concat(ArrivedFragments(SinceFinalizeRaw))

\* two different fragments were buffered before the name arrived with a
\* third; all events were passed on
C20_Witness ==
    /\ pending = <<>> /\ Len(history) = 3
    /\ \A i \in 1..3 : history[i].op = "chunk" /\ history[i].chunk.arguments # <<>>
    /\ history[1].chunk.id = "a" /\ history[1].events = <<>> /\ history[2].events = <<>>
    /\ history[1].chunk.arguments # history[2].chunk.arguments
    /\ Len(LastEvents) = 4
    /\ Tracked("a")
    /\ Text("a") = history[1].chunk.arguments \o history[2].chunk.arguments
                       \o history[3].chunk.arguments

\* the step is a call of the raw chunk method op
IsRawStep(op) == Len(history') = Len(history) + 1 /\ history'[Len(history')].op = op

\* the started entries of the tracker, in order
RECURSIVE StartedEntries(_)
StartedEntries(tracker) ==
    IF tracker = <<>> THEN <<>>
    ELSE (IF Head(tracker).hasStarted THEN <<Head(tracker)>> ELSE <<>>)
         \o StartedEntries(Tail(tracker))

\* C21: processFinishReason("tool_calls") returns one end event for each
\* tracked index, started or not; with another finish reason or an empty
\* tracker it returns no event; it never changes the tracker.
C21_FinishReasonEnds ==
    [][IsRawStep("finish") =>
          /\ rawChunkTracker' = rawChunkTracker
          /\ history'[Len(history')].finishReason = "tool_calls" =>
                StepEvents = [i \in 1..Len(rawChunkTracker) |-> EndEvent(rawChunkTracker[i].id)]
          /\ history'[Len(history')].finishReason # "tool_calls" => StepEvents = <<>>
          /\ rawChunkTracker = <<>> => StepEvents = <<>>]_vars

\* two indices are tracked, one started and one not: the finish reason
\* tool_calls returned an end event for each
C21_Witness ==
    /\ history # <<>> /\ history[Len(history)].op = "finish"
    /\ history[Len(history)].finishReason = "tool_calls"
    /\ Len(rawChunkTracker) = 2
    /\ rawChunkTracker[1].hasStarted /\ ~rawChunkTracker[2].hasStarted
    /\ LastEvents = <<EndEvent(rawChunkTracker[1].id), EndEvent(rawChunkTracker[2].id)>>

\* C22: finalizeRawChunks returns one end event for each started entry and
\* none for an entry that never started, and leaves the tracker empty, the
\* buffered fragments of the entries that never started with it.
C22_HardEndClears ==
    [][IsRawStep("finalizeRaw") =>
          /\ rawChunkTracker' = <<>>
          /\ StepEvents =
                [i \in 1..Len(StartedEntries(rawChunkTracker)) |->
                    EndEvent(StartedEntries(rawChunkTracker)[i].id)]
          /\ \A i \in DOMAIN StepEvents :
                \E p \in DOMAIN rawChunkTracker :
                    rawChunkTracker[p].hasStarted /\ rawChunkTracker[p].id = StepEvents[i].id]_vars

\* one index had started and the other had a fragment buffered: the hard
\* end returned the end event of the first only, and nothing is tracked
C22_Witness ==
    /\ Len(history) = 3 /\ history[3].op = "finalizeRaw"
    /\ history[1].op = "chunk" /\ history[2].op = "chunk"
    /\ history[1].chunk.index # history[2].chunk.index
    /\ history[1].events # <<>>
    /\ history[2].chunk.id # "" /\ history[2].chunk.arguments # <<>> /\ history[2].events = <<>>
    /\ LastEvents = <<EndEvent(history[1].chunk.id)>>
    /\ rawChunkTracker = <<>>

\* what finalize returns for an entry of the map
FinalResult(toolCall) ==
    parseToolCall([id |-> toolCall.id, name |-> toolCall.name,
                   arguments |-> toolCall.argumentsAccumulator])

\* C23: a finalize that returns null for one id (text that is not JSON, a
\* missing required argument, an unknown name, a malformed dynamic name)
\* leaves the entry of every other tracked call as it was, and what a
\* finalize returns is determined by the entry of its own id alone, so the
\* other calls finalize to what they would have without the failure.
C23_FailureIsolation ==
    [][(ret'.op = "finalize" /\ ret'.tracked) =>
          /\ ret'.val = FinalResult(streamingToolCalls[ret'.id])
          /\ ret'.val.kind = "null" =>
                \A i \in DOMAIN streamingToolCalls \ {ret'.id} :
                    /\ i \in DOMAIN streamingToolCalls'
                    /\ streamingToolCalls'[i] = streamingToolCalls[i]
                    /\ FinalResult(streamingToolCalls'[i]) = FinalResult(streamingToolCalls[i])]_vars

\* the finalize of a call with a malformed dynamic name failed while the
\* other call is open with a text that finalizes to a record
C23_Witness ==
    /\ Finalized /\ ret.val.kind = "null"
    /\ ret.name = <<"mcp", "--", "only">>
    /\ \E i \in Ids \ {ret.id} :
          /\ Tracked(i) /\ Text(i) # <<>>
          /\ FinalResult(streamingToolCalls[i]).kind = "tool_use"

\* what parseMcpToolName gives for the normalized form of a name
ParsedName(name) == parseMcpToolName(normalizeMcpToolName(name))

\* C24: finalize of a call whose name starts with the dynamic prefix and
\* separator but does not split into a server name and a tool name returns
\* null; an McpToolUse that finalize returns has a server name and a tool
\* name that are not empty.
C24_MalformedDynamicName ==
    /\ (Finalized /\ DynamicName(ret.name) /\ ~ParsedName(ret.name).ok) => ret.val.kind = "null"
    /\ (Finalized /\ ret.val.kind = "mcp_tool_use") =>
          ret.val.serverName # <<>> /\ ret.val.toolName # <<>>

\* mcp--only was finalized on a text that is a JSON document: the name alone
\* made the finalize fail
C24_Witness ==
    /\ Finalized /\ ret.name = <<"mcp", "--", "only">>
    /\ ret.text = <<"{", "}">>
    /\ ret.val.kind = "null"
    /\ ret.val.log = "Invalid dynamic MCP tool name format"

\* C25: parseMcpToolName of mcp--srv--tool gives the server name srv and the
\* tool name tool; normalizeMcpToolName of mcp__srv__tool followed by
\* parseMcpToolName gives the same pair; parseMcpToolName of mcp--only gives
\* no result; the McpToolUse that finalize returns carries the pair that
\* parseMcpToolName gives for the normalized name of the call.
C25_DynamicNameParsing ==
    /\ parseMcpToolName(<<"mcp", "--", "srv", "--", "tool">>) =
          [ok |-> TRUE, serverName |-> <<"srv">>, toolName |-> <<"tool">>]
    /\ ParsedName(<<"mcp", "__", "srv", "__", "tool">>) =
          parseMcpToolName(<<"mcp", "--", "srv", "--", "tool">>)
    /\ ~parseMcpToolName(<<"mcp", "--", "only">>).ok
    /\ (Finalized /\ ret.val.kind = "mcp_tool_use") =>
          /\ ParsedName(ret.name).ok
          /\ ret.val.serverName = ParsedName(ret.name).serverName
          /\ ret.val.toolName = ParsedName(ret.name).toolName

\* the call named in the underscore form was finalized to an McpToolUse of
\* the server srv and the tool tool
C25_Witness ==
    /\ Finalized /\ ret.name = <<"mcp", "__", "srv", "__", "tool">>
    /\ ret.val.kind = "mcp_tool_use"
    /\ ret.val.serverName = <<"srv">> /\ ret.val.toolName = <<"tool">>

\* the finalized call is one of a static tool whose type declares no
\* required field
NoRequired ==
    /\ StaticCall
    /\ Resolved[1] \in DOMAIN RequiredArgs
    /\ RequiredArgs[Resolved[1]] = {}

RegistryOnly ==
    ~DynamicName(ret.name) /\ ~IsToolName(Resolved) /\ customToolRegistryHas(Resolved)

\* C27 as claimed: the name of every tool_use record that finalize returns is
\* in toolNames, and for a call whose name only the custom-tool registry
\* knows the name of the record is custom_tool.  The record carries the
\* resolved name of the call, which for a registry tool is its own name.
C27_NameInToolNames ==
    (Finalized /\ ret.val.kind = "tool_use") =>
        /\ IsToolName(ret.val.name)
        /\ RegistryOnly => ret.val.name = <<"custom_tool">>

\* C28 as claimed: every record that processStreamingChunk or
\* finalizeStreamingToolCall returns for a tracked call, a tool_use record as
\* well as an McpToolUse, carries the id of the call.  The tool_use records
\* are built without an id.
C28_RecordCarriesId ==
    (ret.op \in {"append", "finalize"} /\ ret.tracked /\ ret.val.kind \in {"tool_use", "mcp_tool_use"}) =>
        ret.val.id = ret.id

C30_RemovedOnlyByFinalizeOrReset ==
    [][/\ \A i \in DOMAIN streamingToolCalls :
             i \notin DOMAIN streamingToolCalls' =>
                 \/ ret'.op = "reset"
                 \/ ret'.op = "finalize" /\ ret'.id = i /\ ret'.tracked
       /\ (history' # history \/ rawChunkTracker' # rawChunkTracker) =>
             streamingToolCalls' = streamingToolCalls /\ ret' = ret
       /\ (ret' # ret \/ streamingToolCalls' # streamingToolCalls) =>
             rawChunkTracker' = rawChunkTracker /\ history' = history]_vars

\* the call "a" is still tracked with its text after the other call was
\* finalized and after finalizeRawChunks emptied the tracker
C30_Witness ==
    /\ Tracked("a") /\ Text("a") = <<"{", "}">>
    /\ past["b"] = "finalized"
    /\ history # <<>> /\ history[Len(history)].op = "finalizeRaw"
    /\ Len(history) = MaxChunksBoth
    /\ rawChunkTracker = <<>>

\* the value the text of the finalized call parses to
ParsedText == JSONParse(ret.text).v

\* C31: finalize of a call whose name only the custom-tool registry knows,
\* on a text that is a JSON object, returns a partial=false record whose
\* nativeArgs is the whole parsed object, whatever members it has or lacks,
\* and whose params keep every key of the object, the keys outside
\* toolParamNames included.
C31_RegistryToolRelaxed ==
    (Finalized /\ RegistryOnly /\ JSONParse(ret.text).ok /\ ParsedText.t = "obj") =>
        /\ ret.val.kind = "tool_use" /\ ~ret.val.partial
        /\ ret.val.nativeArgs = WholeArgs(ParsedText)
        /\ DOMAIN ret.val.params = DOMAIN ParsedText.f
        /\ \A k \in DOMAIN ParsedText.f : ret.val.params[k] = Stringify(ParsedText.f[k])

\* my_tool was finalized on {"extra":"v","name":"v"}: the record has both
\* keys in nativeArgs and in params, and extra is not in toolParamNames
C31_Witness ==
    /\ Finalized /\ ret.name = <<"my_tool">> /\ RegistryOnly
    /\ JSONParse(ret.text).ok
    /\ DOMAIN ParsedText.f = {<<"extra">>, <<"name">>}
    /\ ~IsParamName(<<"extra">>)
    /\ ret.val.kind = "tool_use"
    /\ <<"extra">> \in DOMAIN ret.val.params
    /\ ret.val.nativeArgs.whole = ParsedText

\* C32 as claimed: in every record that processStreamingChunk or finalize
\* returns for a tool with a boolean field, the field is what
\* coerceOptionalBoolean gives for the value of the arguments: a boolean is
\* kept, the strings "true" and "false" in any case become booleans, in the
\* partial and in the strict projection alike.  Only list_files.recursive is
\* coerced; the other boolean fields are copied as they come.
C32_BooleanCoercion ==
    (/\ ret.op \in {"append", "finalize"} /\ ret.tracked
     /\ ret.val.kind = "tool_use" /\ ret.val.nativeArgs.kind = "typed"
     /\ Len(ret.val.name) = 1 /\ ret.val.name[1] \in DOMAIN BooleanField) =>
        LET args == IF ret.op = "append" THEN parseJSON(ret.text).v ELSE ParseArguments(ret.text).v
            k == BooleanField[ret.val.name[1]]
        IN  ret.val.nativeArgs.fields[k] = coerceOptionalBoolean(Get(args, k))

\* an entry that has not started has no name, one that has started has an
\* empty deltaBuffer
TrackedEntryOk(tracked) ==
    /\ ~tracked.hasStarted => tracked.name = <<>>
    /\ tracked.hasStarted => tracked.deltaBuffer = <<>>

\* C33: after every call of processRawChunk every entry of the tracker that
\* has not started has an empty name and every entry that has started has an
\* empty deltaBuffer; hasStarted of an entry does not go back to false while
\* the entry is in the tracker.
C33_TrackerInvariant ==
    [][/\ IsChunkStep => \A p \in DOMAIN rawChunkTracker' : TrackedEntryOk(rawChunkTracker'[p])
       /\ \A p \in DOMAIN rawChunkTracker :
             (rawChunkTracker[p].hasStarted /\ RawGet(rawChunkTracker', rawChunkTracker[p].index) # 0) =>
                 rawChunkTracker'[RawGet(rawChunkTracker', rawChunkTracker[p].index)].hasStarted]_vars

\* the entry of index 0 started in the last call, with a fragment that was
\* buffered before and is flushed now, and a chunk for it came before
C33_Witness ==
    /\ Len(history) = 2 /\ history[2].op = "chunk"
    /\ Len(LastEvents) = 2
    /\ LastEvents[1].type = "tool_call_start" /\ LastEvents[2].type = "tool_call_delta"
    /\ history[1].chunk.index = 0 /\ history[2].chunk.index = 0
    /\ history[1].chunk.arguments # <<>> /\ history[2].chunk.arguments = <<>>
    /\ RawGet(rawChunkTracker, 0) # 0
    /\ rawChunkTracker[RawGet(rawChunkTracker, 0)].hasStarted
    /\ rawChunkTracker[RawGet(rawChunkTracker, 0)].deltaBuffer = <<>>

\* the number of start events in a sequence of events
RECURSIVE StartCount(_)
StartCount(events) ==
    IF events = <<>> THEN 0
    ELSE (IF Head(events).type = "tool_call_start" THEN 1 ELSE 0) + StartCount(Tail(events))

\* the number of start events the calls of a history returned
RECURSIVE StartsIn(_)
StartsIn(h) == IF h = <<>> THEN 0 ELSE StartCount(Head(h).events) + StartsIn(Tail(h))

\* C34: a chunk for an index that is tracked, whatever id it carries, leaves
\* the number of entries and the id of the entry as they were; every event
\* it returns is under that id, and its fragment is returned as a delta
\* event under that id once the entry has started; it returns no start event
\* when the entry had started, also when it brings another name; at most one
\* start event is returned for the index between two emptyings of the
\* tracker.
C34_IdFixedAtCreation ==
    [][IsChunkStep =>
          LET p == RawGet(rawChunkTracker, StepChunk.index)
          IN  /\ p # 0 =>
                    /\ Len(rawChunkTracker') = Len(rawChunkTracker)
                    /\ rawChunkTracker'[p].id = rawChunkTracker[p].id
                    /\ \A q \in DOMAIN StepEvents : StepEvents[q].id = rawChunkTracker[p].id
                    /\ (StepChunk.arguments # <<>> /\ rawChunkTracker'[p].hasStarted) =>
                          /\ StepEvents # <<>>
                          /\ StepEvents[Len(StepEvents)] =
                                DeltaEvent(rawChunkTracker[p].id, StepChunk.arguments)
                    /\ rawChunkTracker[p].hasStarted => StartCount(StepEvents) = 0
              /\ StartsIn(SinceFinalizeRaw') <= 1]_vars

\* the entry of index 0 was made for "a" and started as canvas_create; the
\* last chunk carried the id "b", the name browser_close and a fragment, and
\* returned the fragment as a delta event under "a" and nothing else
C34_Witness ==
    /\ Len(history) = 2 /\ history[1].op = "chunk" /\ history[2].op = "chunk"
    /\ history[1].chunk.id = "a" /\ history[1].chunk.name = <<"canvas_create">>
    /\ history[2].chunk.id = "b" /\ history[2].chunk.name = <<"browser_close">>
    /\ LastEvents = <<DeltaEvent("a", <<"}">>)>>
    /\ Len(rawChunkTracker) = 1 /\ rawChunkTracker[1].id = "a"
    /\ rawChunkTracker[1].name = <<"browser_close">>

\* the events the calls of a history returned, in order
RECURSIVE EventsIn(_)
EventsIn(h) == IF h = <<>> THEN <<>> ELSE Head(h).events \o EventsIn(Tail(h))

\* the events of a sequence that are under the id
RECURSIVE EventsOf(_, _)
EventsOf(events, id) ==
    IF events = <<>> THEN <<>>
    ELSE (IF Head(events).id = id THEN <<Head(events)>> ELSE <<>>) \o EventsOf(Tail(events), id)

\* the history is a sequence of processRawChunk calls followed by one
\* finalizeRawChunks
ChunksThenFinalizeRaw ==
    /\ history # <<>> /\ history[Len(history)].op = "finalizeRaw"
    /\ \A i \in 1..(Len(history) - 1) : history[i].op = "chunk"

\* an entry was made for the id, and a chunk of its index brought a name
\* then or later
NameArrived(id) ==
    \E i \in DOMAIN history :
        /\ history[i].op = "chunk" /\ history[i].chunk.id = id
        /\ \E j \in i..Len(history) :
              /\ history[j].op = "chunk"
              /\ history[j].chunk.index = history[i].chunk.index
              /\ history[j].chunk.name # <<>>

\* C35: after a sequence of processRawChunk calls followed by
\* finalizeRawChunks, the events returned under an id whose name arrived are
\* one start event, then delta events only, then one end event; under an id
\* whose name did not arrive no event was returned.
C35_LifecycleOnHardEnd ==
    ChunksThenFinalizeRaw =>
        \A id \in Ids :
            LET events == EventsOf(EventsIn(history), id)
            IN  IF NameArrived(id)
                THEN /\ Len(events) >= 2
                     /\ events[1].type = "tool_call_start"
                     /\ events[Len(events)].type = "tool_call_end"
                     /\ \A p \in 2..(Len(events) - 1) : events[p].type = "tool_call_delta"
                ELSE events = <<>>

\* the call "a" got its start, a delta and its end; an entry was made for
\* "b" with a fragment and no name, and no event was returned under "b"
C35_Witness ==
    /\ ChunksThenFinalizeRaw /\ Len(history) = 3
    /\ NameArrived("a") /\ ~NameArrived("b")
    /\ Len(EventsOf(EventsIn(history), "a")) = 3
    /\ \E i \in 1..2 : history[i].chunk.id = "b" /\ history[i].chunk.arguments # <<>>
    /\ EventsOf(EventsIn(history), "b") = <<>>

\* is the event one of the events of a call
HasEvent(events, event) == \E p \in DOMAIN events : events[p] = event

\* in the history h a processFinishReason("tool_calls") returned an end event
\* for the id after the start event of the id, and finalizeRawChunks was not
\* called since that start event
FinishEndedStarted(h, id) ==
    \E j \in DOMAIN h : \E i \in (j + 1)..Len(h) :
        /\ \E p \in DOMAIN h[j].events :
              h[j].events[p].type = "tool_call_start" /\ h[j].events[p].id = id
        /\ h[i].op = "finish" /\ h[i].finishReason = "tool_calls"
        /\ HasEvent(h[i].events, EndEvent(id))
        /\ \A k \in j..Len(h) : h[k].op # "finalizeRaw"

\* the step passes an end event of finalizeRawChunks on to
\* finalizeStreamingToolCall
IsForwardOfHardEnd ==
    /\ pending # <<>> /\ pending' = Tail(pending)
    /\ Head(pending).type = "tool_call_end"
    /\ history' = history /\ history # <<>>
    /\ history[Len(history)].op = "finalizeRaw"

C37_NoLeak ==
    (pending = <<>> /\ history # <<>> /\ history[Len(history)].op = "finalizeRaw") =>
        ~hasActiveStreamingToolCalls

\* the call "a" was begun and got a fragment, no finish reason came,
\* finalizeRawChunks ended it and no streaming call is left
C37_Witness ==
    /\ pending = <<>> /\ Len(history) = 3
    /\ history[1].op = "chunk" /\ history[2].op = "chunk" /\ history[3].op = "finalizeRaw"
    /\ HasEvent(history[1].events, StartEvent("a", <<"canvas_create">>))
    /\ history[2].events = <<DeltaEvent("a", history[2].chunk.arguments)>>
    /\ history[3].events = <<EndEvent("a")>>
    /\ past["a"] = "finalized" /\ ret.op = "finalize" /\ ret.tracked
    /\ ~hasActiveStreamingToolCalls

\* the name of the last call is neither dynamic, nor a static tool name, nor
\* in the registry, after alias resolution
UnknownName ==
    ~DynamicName(ret.name) /\ ~IsToolName(Resolved) /\ ~customToolRegistryHas(Resolved)

\* C38: processStreamingChunk does not validate the name: for a tracked call
\* with an unknown name and a text the lenient parser accepts it returns a
\* partial=true record with the resolved name and without nativeArgs;
\* finalizeStreamingToolCall of such a call returns null.
C38_PartialPathSkipsValidation ==
    /\ (ret.op = "append" /\ ret.tracked /\ UnknownName /\ ~parseJSON(ret.text).err) =>
          /\ ret.val.kind = "tool_use" /\ ret.val.partial
          /\ ret.val.name = Resolved
          /\ ret.val.nativeArgs = NoArgs
    /\ (Finalized /\ UnknownName) => ret.val.kind = "null"

\* the call named bogus was finalized to null after its last
\* processStreamingChunk had returned a partial record named bogus
C38_Witness ==
    /\ Finalized /\ UnknownName /\ ret.name = <<"bogus">>
    /\ ret.prev.kind = "tool_use" /\ ret.prev.partial /\ ret.prev.name = <<"bogus">>
    /\ ret.prev.nativeArgs = NoArgs
    /\ JSONParse(ret.text).ok
    /\ ret.val.kind = "null"

\* the finalized call is one of a static tool and its text is a JSON object
\* that has every required field of the tool
HasRequired ==
    /\ StaticCall /\ Resolved[1] \in DOMAIN RequiredArgs /\ RequiredArgs[Resolved[1]] # {}
    /\ JSONParse(ret.text).ok /\ ParsedText.t = "obj"
    /\ \A k \in RequiredArgs[Resolved[1]] : Defined(Get(ParsedText, k))

\* the tools whose case tests the required field for truthiness
TruthyTools == {"attempt_completion", "execute_command"}

\* finalize returned a record that carries the required fields as they are
\* in the text
CarriesRequired ==
    /\ ret.val.kind = "tool_use" /\ ret.val.nativeArgs.kind = "typed"
    /\ \A k \in RequiredArgs[Resolved[1]] : ret.val.nativeArgs.fields[k] = Get(ParsedText, k)

\* C39 as claimed: for attempt_completion and execute_command finalize
\* returns a record only if the required field is truthy; for every other
\* tool a required field that is present is accepted whatever its value, null
\* included, and the record carries it.
C39_NotUndefinedElsewhere ==
    (Finalized /\ HasRequired) =>
        IF Resolved[1] \in TruthyTools
        THEN IF \A k \in RequiredArgs[Resolved[1]] : Truthy(Get(ParsedText, k))
             THEN CarriesRequired ELSE ret.val.kind = "null"
        ELSE CarriesRequired

\* C39: for attempt_completion and execute_command finalize returns a record
\* only if the required field is truthy, so an empty string makes it return
\* null; for the tools whose case tests "not undefined" a required field that
\* is present is accepted whatever its value, null included, and the record
\* carries it; read_file and search_and_replace test for an array, and return
\* null when files or operations is null.
C39_EnforcementNotUniform ==
    (Finalized /\ HasRequired) =>
        IF Resolved[1] \in TruthyTools
        THEN IF \A k \in RequiredArgs[Resolved[1]] : Truthy(Get(ParsedText, k))
             THEN CarriesRequired ELSE ret.val.kind = "null"
        ELSE IF Resolved[1] \in {"read_file", "search_and_replace"}
        THEN (\E k \in {"files", "operations"} : Get(ParsedText, k) = Null) => ret.val.kind = "null"
        ELSE CarriesRequired

\* execute_command with an empty command was finalized to null
C39_Witness ==
    /\ Finalized /\ HasRequired /\ ret.name = <<"execute_command">>
    /\ Get(ParsedText, "command") = Str(<<>>)
    /\ ret.val.kind = "null"

\* canvas_create with the name null was finalized to a record with name null
C39_WitnessNull ==
    /\ Finalized /\ HasRequired /\ ret.name = <<"canvas_create">>
    /\ Get(ParsedText, "name") = Null
    /\ ret.val.kind = "tool_use" /\ ret.val.nativeArgs.fields["name"] = Null

\* what finalize gives for the id, the name and the fragments of a call
ResultOf(id, name, fragments) ==
    parseToolCall([id |-> id, name |-> name, arguments |-> Concat(fragments)])

\* C40: what a finalize of a tracked id returns is determined by the id, the
\* name the call was last begun with and the concatenation of the fragments
\* passed for it since: a begin sets the name and empties the fragments of
\* its own id, no other step changes the name of a call, only an append to
\* the id adds to its fragments, and the finalize returns what parseToolCall
\* gives for that name and that concatenation.  So two calls with the same
\* name and the same concatenation finalize to the same result, however the
\* text was split and whatever happened to the other ids.
C40_FinalizeDeterminism ==
    [][/\ (ret'.op = "finalize" /\ ret'.tracked) =>
             ret'.val = ResultOf(ret'.id, streamingToolCalls[ret'.id].name, sent[ret'.id])
       /\ \A i \in DOMAIN streamingToolCalls' :
             IF ret'.op = "begin" /\ ret'.id = i
             THEN streamingToolCalls'[i].name = ret'.name /\ sent'[i] = <<>>
             ELSE /\ i \in DOMAIN streamingToolCalls
                  /\ streamingToolCalls'[i].name = streamingToolCalls[i].name
                  /\ IF ret'.op = "append" /\ ret'.id = i
                     THEN Concat(sent'[i]) = Concat(sent[i]) \o sent'[i][Len(sent'[i])]
                     ELSE sent'[i] = sent[i]]_vars

\* a call with the text {} was finalized to a record while the other call,
\* begun with the same name, is open with the same text received in the two
\* fragments { and }, and finalizes to that record
C40_Witness ==
    /\ Finalized /\ ret.text = <<"{", "}">> /\ ret.val.kind = "tool_use"
    /\ \E i \in Ids \ {ret.id} :
          /\ Tracked(i) /\ streamingToolCalls[i].name = ret.name
          /\ sent[i] = <<<<"{">>, <<"}">>>>
          /\ FinalResult(streamingToolCalls[i]) = ret.val

====
